---- MODULE Spec2Model ----
(***************************************************************************)
(* Model of the mail message deduplicator of mac-mail-mcp                  *)
(* (class MessageDeduplicator, src/mac-mail-mcp/src/mail/security.ts).     *)
(*                                                                         *)
(* Strings are sequences of UTF-16 code units (what charCodeAt returns),   *)
(* restricted to ASCII.  A Date is its getTime() value in milliseconds.    *)
(* An absent (undefined) optional field is modelled by the falsy value of  *)
(* its type: 0 for globalMessageId, "" for messageIdHeader; the code only  *)
(* ever tests these fields for truthiness, so 0 / "" and undefined behave  *)
(* alike.                                                                  *)
(***************************************************************************)
EXTENDS Integers, Sequences, FiniteSets, TLC

---------------------------------------------------------------------------
(* String primitives of the JavaScript runtime used by the deduplicator.   *)

Min(a, b) == IF a <= b THEN a ELSE b
Max(a, b) == IF a >= b THEN a ELSE b

\* String.prototype.toLowerCase, ASCII range: 'A'..'Z' -> 'a'..'z'.
toLowerCase(s) ==
  [i \in 1..Len(s) |-> IF s[i] >= 65 /\ s[i] <= 90 THEN s[i] + 32 ELSE s[i]]

\* The regex class \s and the characters trim() removes, ASCII range:
\* TAB, LF, VT, FF, CR, SPACE.
IsWhiteSpace(c) == c \in {9, 10, 11, 12, 13, 32}

RECURSIVE trimStart(_)
trimStart(s) ==
  IF s # <<>> /\ IsWhiteSpace(Head(s)) THEN trimStart(Tail(s)) ELSE s

RECURSIVE trimEnd(_)
trimEnd(s) ==
  IF s # <<>> /\ IsWhiteSpace(s[Len(s)])
    THEN trimEnd(SubSeq(s, 1, Len(s) - 1))
    ELSE s

\* String.prototype.trim
trim(s) == trimEnd(trimStart(s))

\* String.prototype.substring(from, to) with 0 <= from <= to.
substring(s, from, to) == SubSeq(s, from + 1, Min(to, Len(s)))

startsWith(s, p) == Len(s) >= Len(p) /\ SubSeq(s, 1, Len(p)) = p

\* join('|') of the parts that survive filter(Boolean): empty strings are
\* falsy and dropped, the others are joined with '|' (code 124).
RECURSIVE joinTruthy(_)
joinTruthy(parts) ==
  IF parts = <<>> THEN <<>>
  ELSE LET rest == joinTruthy(Tail(parts))
       IN IF Head(parts) = <<>> THEN rest
          ELSE IF rest = <<>> THEN Head(parts)
          ELSE Head(parts) \o <<124>> \o rest

\* Two decimal digits of n, 0 <= n <= 99.
Digits2(n) == <<48 + (n \div 10), 48 + (n % 10)>>

\* Date.prototype.toISOString: "YYYY-MM-DDTHH:mm:ss.sssZ" in UTC.  TLC's
\* integers are 32 bit, so getTime() values lie in 0 .. 2^31-1 ms, which is
\* 1970-01-01 .. 1970-01-25: the year is 1970 and the month is 01.
toISOString(t) ==
  LET day  == t \div 86400000
      hour == (t \div 3600000) % 24
      mnt  == (t \div 60000) % 60
      sec  == (t \div 1000) % 60
      ms   == t % 1000
  IN <<49, 57, 55, 48, 45, 48, 49, 45>> \o Digits2(day + 1) \o <<84>>
     \o Digits2(hour) \o <<58>> \o Digits2(mnt) \o <<58>> \o Digits2(sec)
     \o <<46, 48 + (ms \div 100)>> \o Digits2(ms % 100) \o <<90>>

---------------------------------------------------------------------------
(* MessageDeduplicator: the pure helpers.                                  *)

\* 32-bit words are kept as two 16-bit halves <<hi, lo>>, and products are
\* formed bytewise, so that no intermediate value leaves TLC's integer
\* range.
add32(a, b) ==
  LET lo == a[2] + b[2]
  IN <<(a[1] + b[1] + (lo \div 65536)) % 65536, lo % 65536>>

\* x * y modulo 2^16, for 16-bit x and y.
mulmod16(x, y) ==
  ((x % 256) * y + (((x \div 256) * y) % 256) * 256) % 65536

\* The full 32-bit product of 16-bit x and y.
mul16(x, y) ==
  LET A == (x % 256) * y
      B == (x \div 256) * y
      lo == (A % 65536) + (B % 256) * 256
  IN <<(A \div 65536) + (B \div 256) + (lo \div 65536), lo % 65536>>

\* a * b modulo 2^32.
mul32(a, b) ==
  LET ll == mul16(a[2], b[2])
  IN <<(ll[1] + mulmod16(a[1], b[2]) + mulmod16(a[2], b[1])) % 65536, ll[2]>>

\* The loop `for (i...) { hash = ((hash << 5) - hash) + char;
\* hash = hash & hash }` sets hash := (31 * hash + char) wrapped to 32 bits
\* for each character in turn, which yields
\*   sum of content[i] * 31^(n - i)  modulo 2^32.
\* hashLoop evaluates that sum by halving the string: for the characters
\* lo..hi it gives their hash h and the weight p = 31^(hi - lo + 1), and the
\* hash of a concatenation is h1 * p2 + h2.
RECURSIVE hashLoop(_, _, _)
hashLoop(content, lo, hi) ==
  IF lo > hi THEN [h |-> <<0, 0>>, p |-> <<0, 1>>]
  ELSE IF lo = hi THEN [h |-> <<0, content[lo]>>, p |-> <<0, 31>>]
  ELSE LET mid == (lo + hi) \div 2
           l == hashLoop(content, lo, mid)
           r == hashLoop(content, mid + 1, hi)
       IN [h |-> add32(mul32(l.h, r.p), r.h), p |-> mul32(l.p, r.p)]

\* The signed 32-bit integer the two halves stand for; hash.toString() is
\* its decimal numeral, which is one-to-one with the integer.
toInt32(h) == IF h[1] >= 32768 THEN (h[1] - 65536) * 65536 + h[2]
              ELSE h[1] * 65536 + h[2]

\* Variant: the date enters the hash to the second (substring(0, 19)).
generateContentHashToSecond(message) ==
  LET content == joinTruthy(<<trim(toLowerCase(message.subject)),
                              trim(toLowerCase(message.from)),
                              substring(toISOString(message.date), 0, 19),
                              toLowerCase(message.account)>>)
  IN toInt32(hashLoop(content, 1, Len(content)).h)

generateContentHash(message) ==
  LET content == joinTruthy(<<trim(toLowerCase(message.subject)),
                              trim(toLowerCase(message.from)),
                              substring(toISOString(message.date), 0, 16),
                              toLowerCase(message.account)>>)
  IN toInt32(hashLoop(content, 1, Len(content)).h)

\* replace(/^(re:|fwd?:|fw:)\s*/g, ''): the pattern is anchored at the start
\* of the string, so at most one prefix (and the white space after it) goes.
stripReplyPrefix(s) ==
  LET n == IF startsWith(s, <<114, 101, 58>>) THEN 3            \* re:
           ELSE IF startsWith(s, <<102, 119, 100, 58>>) THEN 4  \* fwd:
           ELSE IF startsWith(s, <<102, 119, 58>>) THEN 3       \* fw:
           ELSE 0
  IN IF n = 0 THEN s ELSE trimStart(SubSeq(s, n + 1, Len(s)))

\* replace(/\s+/g, ' '): every maximal run of white space becomes one space.
RECURSIVE collapseWhiteSpace(_)
collapseWhiteSpace(s) ==
  IF s = <<>> THEN <<>>
  ELSE IF IsWhiteSpace(Head(s)) THEN <<32>> \o collapseWhiteSpace(trimStart(s))
  ELSE <<Head(s)>> \o collapseWhiteSpace(Tail(s))

\* replace(/<[^>]+>/, ''): removes the leftmost '<' (60) that is followed by
\* at least one character other than '>' (62) and then a '>', up to and
\* including that '>'.
stripAngleAddress(s) ==
  LET closes(i) == {k \in (i + 2)..Len(s) : s[k] = 62}
      opens == {i \in 1..Len(s) :
                  /\ s[i] = 60
                  /\ i + 1 <= Len(s)
                  /\ s[i + 1] # 62
                  /\ closes(i) # {}}
  IN IF opens = {} THEN s
     ELSE LET i == CHOOSE x \in opens : \A y \in opens : x <= y
              k == CHOOSE x \in closes(i) : \A y \in closes(i) : x <= y
          IN SubSeq(s, 1, i - 1) \o SubSeq(s, k + 1, Len(s))

\* replace(/["\s]/g, ''): removes every double quote (34) and white space.
stripQuotesAndSpace(s) ==
  SelectSeq(s, LAMBDA c : c # 34 /\ ~IsWhiteSpace(c))

normalizeSender(sender) ==
  trim(stripQuotesAndSpace(stripAngleAddress(toLowerCase(sender))))

\* Variant: the key groups by day (substring(0, 10)).
generateFuzzyKeyByDay(message) ==
  LET normalizedSubject ==
        substring(trim(collapseWhiteSpace(stripReplyPrefix(
          toLowerCase(message.subject)))), 0, 50)
      normalizedSender ==
        trim(stripQuotesAndSpace(stripAngleAddress(toLowerCase(message.from))))
      hourKey == substring(toISOString(message.date), 0, 10)
  IN normalizedSubject \o <<124>> \o normalizedSender \o <<124>> \o hourKey

generateFuzzyKey(message) ==
  LET normalizedSubject ==
        substring(trim(collapseWhiteSpace(stripReplyPrefix(
          toLowerCase(message.subject)))), 0, 50)
      normalizedSender ==
        trim(stripQuotesAndSpace(stripAngleAddress(toLowerCase(message.from))))
      hourKey == substring(toISOString(message.date), 0, 13)
  IN normalizedSubject \o <<124>> \o normalizedSender \o <<124>> \o hourKey

Min3(a, b, c) == Min(a, Min(b, c))

\* Row j of the Levenshtein matrix from row j-1: matrix[j][0] = j and
\* matrix[j][i] = min(deletion, insertion, substitution) for i = 1..|s1|.
\* Rows are sequences indexed from 1, so column i is element i + 1.
RECURSIVE levRow(_, _, _, _)
levRow(prev, s1, c2, acc) ==
  LET i == Len(acc)
  IN IF i > Len(s1) THEN acc
     ELSE LET cost == IF s1[i] = c2 THEN 0 ELSE 1
          IN levRow(prev, s1, c2,
               Append(acc, Min3(prev[i + 1] + 1,
                                acc[i] + 1,
                                prev[i] + cost)))

RECURSIVE levRows(_, _, _)
levRows(prev, s1, s2) ==
  IF s2 = <<>> THEN prev
  ELSE levRows(levRow(prev, s1, Head(s2), <<prev[1] + 1>>), s1, Tail(s2))

\* matrix[s2.length][s1.length]
levenshtein(s1, s2) ==
  levRows([i \in 1..(Len(s1) + 1) |-> i - 1], s1, s2)[Len(s1) + 1]

\* Variant: the strings are compared as given, without toLowerCase().
calculateSimilarityCaseSensitive(str1, str2) ==
  LET maxLength == Max(Len(str1), Len(str2))
  IN IF str1 = str2 THEN [num |-> 1, den |-> 1]
     ELSE IF Len(str1) = 0 \/ Len(str2) = 0 THEN [num |-> 0, den |-> 1]
     ELSE [num |-> maxLength - levenshtein(str1, str2), den |-> maxLength]

\* The similarity is a fraction; it is kept exact as [num, den], den > 0.
calculateSimilarity(str1, str2) ==
  LET s1 == toLowerCase(str1)
      s2 == toLowerCase(str2)
      maxLength == Max(Len(s1), Len(s2))
  IN IF s1 = s2 THEN [num |-> 1, den |-> 1]
     ELSE IF Len(s1) = 0 \/ Len(s2) = 0 THEN [num |-> 0, den |-> 1]
     ELSE [num |-> maxLength - levenshtein(s1, s2), den |-> maxLength]

\* `similarity < 0.8`: num/den < 4/5.  The quotient is exactly 0.8 only when
\* the division rounds to the same double as the literal, so the integer
\* comparison decides as the floating-point one does.
BelowThreshold(sim) == 5 * sim.num < 4 * sim.den

\* Variant: the time difference is taken without Math.abs.
isFuzzyMatchSigned(message1, message2) ==
  LET timeDiff == message1.date - message2.date
  IN IF normalizeSender(message1.from) # normalizeSender(message2.from)
       THEN FALSE
     ELSE IF BelowThreshold(calculateSimilarity(message1.subject,
                                                message2.subject))
       THEN FALSE
     ELSE IF timeDiff > 24 * 60 * 60 * 1000 THEN FALSE
     ELSE TRUE

isFuzzyMatch(message1, message2) ==
  LET timeDiff == IF message1.date >= message2.date
                    THEN message1.date - message2.date
                    ELSE message2.date - message1.date
  IN IF normalizeSender(message1.from) # normalizeSender(message2.from)
       THEN FALSE
     ELSE IF BelowThreshold(calculateSimilarity(message1.subject,
                                                message2.subject))
       THEN FALSE
     ELSE IF timeDiff > 24 * 60 * 60 * 1000 THEN FALSE
     ELSE TRUE

---------------------------------------------------------------------------
(* The batches a host can pass in.                                         *)

MaxLen == 3

\* 1970-01-02T10:00:00.000Z in milliseconds
T == 34 * 3600000
Minute == 60 * 1000
Hour == 60 * Minute

Msg(id, gid, hdr, subject, from, date, account, source) ==
  [id |-> id, globalMessageId |-> gid, messageIdHeader |-> hdr,
   subject |-> subject, from |-> from, date |-> date,
   account |-> account, source |-> source]

Hi       == <<72, 105>>                                    \* "Hi"
Budget   == <<66, 117, 100, 103, 101, 116>>                \* "Budget"
ReBudget == <<82, 101, 58, 32, 66, 117, 100, 103, 101, 116>> \* "Re: Budget"
BUDGETsp == <<32, 66, 85, 68, 71, 69, 84, 32>>             \* " BUDGET "
AtX      == <<97, 64, 120, 46, 99, 111, 109>>              \* "a@x.com"
ATXsp    == <<65, 64, 88, 46, 99, 111, 109, 32>>           \* "A@X.com "
ICloud   == <<105, 67, 108, 111, 117, 100>>                \* "iCloud"
ICLOUD   == <<73, 67, 76, 79, 85, 68>>                     \* "ICLOUD"

\* The same mail seen twice by Mac Mail (one global id), an hour apart.
a1 == Msg("a1", 42, "", Hi, AtX, T, ICloud, "mac-mail")
a2 == Msg("a2", 42, "<m1@x>", Hi, AtX, T + Hour, ICloud, "mac-mail")
\* The IMAP copy of a2: same Message-ID header, no global id.
h1 == Msg("h1", 0, "<m1@x>", Hi, AtX, T + Hour, ICloud, "imap")
\* A thread without identifiers, all within one UTC hour.
b1 == Msg("b1", 0, "", Budget, AtX, T + 20 * Minute, ICloud, "mac-mail")
b2 == Msg("b2", 0, "", ReBudget, AtX, T + 10 * Minute, ICloud, "mac-mail")
b3 == Msg("b3", 0, "", Budget, AtX, T, ICloud, "mac-mail")
\* b3 again up to case and surrounding blanks, 30 seconds later.
b4 == Msg("b4", 0, "", BUDGETsp, ATXsp, T + 30 * 1000, ICLOUD, "imap")
\* b1 again 45 minutes later, in the next UTC hour.
b5 == Msg("b5", 0, "", Budget, AtX, T + 65 * Minute, ICloud, "imap")

Pool == {a1, a2, h1, b1, b2, b3, b4, b5}

---------------------------------------------------------------------------
(* MessageDeduplicator: the instance and its operations.                   *)

\* The helpers are pure functions of the message, and every message of a
\* batch comes from Pool: their values are tabulated once.
contentHashOf == [m \in Pool |-> generateContentHash(m)]
fuzzyKeyOf == [m \in Pool |-> generateFuzzyKey(m)]
fuzzyMatchOf == [m1 \in Pool, m2 \in Pool |-> isFuzzyMatch(m1, m2)]

\* private seenGlobalIds / seenMessageIds / seenContentHashes / fuzzyMatches
NewDeduplicator ==
  [seenGlobalIds |-> {}, seenMessageIds |-> {}, seenContentHashes |-> {},
   fuzzyMatches |-> <<>>]

\* Variant: reset() clears nothing.
resetKeepsAll(this) == this

\* Variant: reset() forgets this.fuzzyMatches.clear().
resetKeepsFuzzy(this) ==
  [seenGlobalIds |-> {}, seenMessageIds |-> {}, seenContentHashes |-> {},
   fuzzyMatches |-> this.fuzzyMatches]

reset(this) ==
  [seenGlobalIds |-> {}, seenMessageIds |-> {}, seenContentHashes |-> {},
   fuzzyMatches |-> <<>>]

\* The stats object deduplicate starts from.
InitialStats(messages) ==
  [totalMessages |-> Len(messages), uniqueMessages |-> 0,
   duplicatesRemoved |-> 0,
   bySource |-> [macMail |-> 0, imap |-> 0],
   deduplicationMethods |-> [globalMessageId |-> 0, messageIdHeader |-> 0,
                             contentHash |-> 0, fuzzyMatch |-> 0]]

\* Variant: the content hash is tested before the two identifiers.
isDuplicateHashFirst(this, message) ==
  IF contentHashOf[message] \in this.seenContentHashes
    THEN "contentHash"
  ELSE IF /\ message.globalMessageId # 0
          /\ message.globalMessageId \in this.seenGlobalIds
    THEN "globalMessageId"
  ELSE IF /\ message.messageIdHeader # ""
          /\ message.messageIdHeader \in this.seenMessageIds
    THEN "messageIdHeader"
  ELSE LET fuzzyKey == fuzzyKeyOf[message]
       IN IF /\ fuzzyKey \in DOMAIN this.fuzzyMatches
             /\ fuzzyMatchOf[message, this.fuzzyMatches[fuzzyKey]]
            THEN "fuzzyMatch"
          ELSE "none"

\* isDuplicate increments one counter of stats.deduplicationMethods and
\* returns true, or returns false: the value here is the name of the counter
\* it increments, "none" standing for false.
isDuplicate(this, message) ==
  IF /\ message.globalMessageId # 0
     /\ message.globalMessageId \in this.seenGlobalIds
    THEN "globalMessageId"
  ELSE IF /\ message.messageIdHeader # ""
          /\ message.messageIdHeader \in this.seenMessageIds
    THEN "messageIdHeader"
  ELSE IF contentHashOf[message] \in this.seenContentHashes
    THEN "contentHash"
  ELSE LET fuzzyKey == fuzzyKeyOf[message]
       IN IF /\ fuzzyKey \in DOMAIN this.fuzzyMatches
             /\ fuzzyMatchOf[message, this.fuzzyMatches[fuzzyKey]]
            THEN "fuzzyMatch"
          ELSE "none"

recordMessage(this, message) ==
  LET fuzzyKey == fuzzyKeyOf[message]
  IN [seenGlobalIds |->
        IF message.globalMessageId # 0
          THEN this.seenGlobalIds \cup {message.globalMessageId}
          ELSE this.seenGlobalIds,
      seenMessageIds |->
        IF message.messageIdHeader # ""
          THEN this.seenMessageIds \cup {message.messageIdHeader}
          ELSE this.seenMessageIds,
      seenContentHashes |->
        this.seenContentHashes \cup {contentHashOf[message]},
      fuzzyMatches |->
        [k \in DOMAIN this.fuzzyMatches \cup {fuzzyKey} |->
           IF k = fuzzyKey THEN message ELSE this.fuzzyMatches[k]]]

\* Variant: the comparator is a.date - b.date (oldest first).
RECURSIVE sortOldestFirst(_)
sortOldestFirst(messages) ==
  IF messages = <<>> THEN <<>>
  ELSE LET rest == sortOldestFirst(SubSeq(messages, 1, Len(messages) - 1))
           m == messages[Len(messages)]
           k == Cardinality({i \in 1..Len(rest) : rest[i].date <= m.date})
       IN SubSeq(rest, 1, k) \o <<m>> \o SubSeq(rest, k + 1, Len(rest))

\* Variant: the batch is scanned in input order, without sorting.
sortNot(messages) == messages

\* [...messages].sort((a, b) => b.date.getTime() - a.date.getTime()):
\* Array.prototype.sort is stable, so messages of equal date keep their
\* input order.
RECURSIVE insertByDate(_, _)
insertByDate(sorted, m) ==
  IF sorted = <<>> THEN <<m>>
  ELSE IF Head(sorted).date >= m.date
    THEN <<Head(sorted)>> \o insertByDate(Tail(sorted), m)
  ELSE <<m>> \o sorted

RECURSIVE sortNewestFirst(_)
sortNewestFirst(messages) ==
  IF messages = <<>> THEN <<>>
  ELSE insertByDate(sortNewestFirst(SubSeq(messages, 1, Len(messages) - 1)),
                    messages[Len(messages)])

\* Variant: the content-hash branch returns true without counting.
countVerdictMissingHash(stats, verdict) ==
  IF verdict \in {"none", "contentHash"} THEN stats
  ELSE [stats EXCEPT !.deduplicationMethods[verdict] = @ + 1]

\* stats.deduplicationMethods.<strategy>++ in the branch isDuplicate takes.
countVerdict(stats, verdict) ==
  IF verdict = "none" THEN stats
  ELSE [stats EXCEPT !.deduplicationMethods[verdict] = @ + 1]

\* Variant: recordMessage is called for every scanned message.
loopBodyRecordsAll(st, message) ==
  LET verdict == isDuplicate(st.this, message)
      counted == countVerdict(st.stats, verdict)
  IN [this |-> recordMessage(st.this, message),
      uniqueMessages |-> IF verdict = "none"
                           THEN Append(st.uniqueMessages, message)
                           ELSE st.uniqueMessages,
      stats |-> IF message.source = "mac-mail"
                  THEN [counted EXCEPT !.bySource.macMail = @ + 1]
                  ELSE [counted EXCEPT !.bySource.imap = @ + 1],
      verdicts |-> Append(st.verdicts, verdict)]

\* One iteration of `for (const message of sortedMessages)`.  st.verdicts
\* records, per scanned message, what isDuplicate answered.
loopBody(st, message) ==
  LET verdict == isDuplicate(st.this, message)
      counted == countVerdict(st.stats, verdict)
  IN [this |-> IF verdict = "none" THEN recordMessage(st.this, message)
               ELSE st.this,
      uniqueMessages |-> IF verdict = "none"
                           THEN Append(st.uniqueMessages, message)
                           ELSE st.uniqueMessages,
      stats |-> IF message.source = "mac-mail"
                  THEN [counted EXCEPT !.bySource.macMail = @ + 1]
                  ELSE [counted EXCEPT !.bySource.imap = @ + 1],
      verdicts |-> Append(st.verdicts, verdict)]

RECURSIVE scanLoop(_, _)
scanLoop(st, rest) ==
  IF rest = <<>> THEN st
  ELSE scanLoop(loopBody(st, Head(rest)), Tail(rest))

\* Variant: duplicatesRemoved is computed before uniqueMessages is set.
finishStatsStale(stats, uniqueMessages) ==
  [stats EXCEPT !.duplicatesRemoved = stats.totalMessages - stats.uniqueMessages,
                !.uniqueMessages = Len(uniqueMessages)]

\* Variant: stats.uniqueMessages is set to uniqueMessages.length + 1.
finishStatsOffByOne(stats, uniqueMessages) ==
  LET counted == [stats EXCEPT !.uniqueMessages = Len(uniqueMessages) + 1]
  IN [counted EXCEPT
        !.duplicatesRemoved = counted.totalMessages - counted.uniqueMessages]

\* stats.uniqueMessages = ...; stats.duplicatesRemoved = ...
finishStats(stats, uniqueMessages) ==
  LET counted == [stats EXCEPT !.uniqueMessages = Len(uniqueMessages)]
  IN [counted EXCEPT
        !.duplicatesRemoved = counted.totalMessages - counted.uniqueMessages]

\* Variant: messages.sort(...) sorts the argument array in place.
argumentSortedInPlace(messages, sortedMessages) == sortedMessages

\* [...messages].sort(...) sorts a copy: what the argument array holds once
\* the call has returned.
argumentAfterSort(messages, sortedMessages) == messages

\* deduplicate(messages) on the instance `this`: the returned
\* {uniqueMessages, stats}, the instance afterwards, and the scan order with
\* its verdicts.
deduplicate(this, messages) ==
  LET sortedMessages == sortNewestFirst(messages)
      st == scanLoop([this |-> reset(this), uniqueMessages |-> <<>>,
                      stats |-> InitialStats(messages), verdicts |-> <<>>],
                     sortedMessages)
  IN [uniqueMessages |-> st.uniqueMessages,
      stats |-> finishStats(st.stats, st.uniqueMessages),
      this |-> st.this,
      sortedMessages |-> sortedMessages,
      verdicts |-> st.verdicts]

areRelated(msg1, msg2) ==
  IF /\ msg1.globalMessageId # 0
     /\ msg2.globalMessageId # 0
     /\ msg1.globalMessageId = msg2.globalMessageId
    THEN TRUE
  ELSE IF /\ msg1.messageIdHeader # ""
          /\ msg2.messageIdHeader # ""
          /\ msg1.messageIdHeader = msg2.messageIdHeader
    THEN TRUE
  ELSE fuzzyMatchOf[msg1, msg2]

\* `for (const other of messages)`: g is [group, processed].
RECURSIVE groupLoop(_, _, _)
groupLoop(g, message, others) ==
  IF others = <<>> THEN g
  ELSE LET other == Head(others)
       IN IF other.id \in g.processed \/ message.id = other.id
            THEN groupLoop(g, message, Tail(others))
          ELSE IF areRelated(message, other)
            THEN groupLoop([group |-> Append(g.group, other),
                            processed |-> g.processed \cup {other.id}],
                           message, Tail(others))
          ELSE groupLoop(g, message, Tail(others))

\* `for (const message of messages)`: acc is [duplicateGroups, processed].
RECURSIVE groupsLoop(_, _, _)
groupsLoop(acc, messages, rest) ==
  IF rest = <<>> THEN acc
  ELSE LET message == Head(rest)
       IN IF message.id \in acc.processed
            THEN groupsLoop(acc, messages, Tail(rest))
          ELSE LET g == groupLoop([group |-> <<message>>,
                                   processed |-> acc.processed \cup {message.id}],
                                  message, messages)
               IN groupsLoop(
                    [duplicateGroups |->
                       IF Len(g.group) > 1
                         THEN Append(acc.duplicateGroups, g.group)
                         ELSE acc.duplicateGroups,
                     processed |-> g.processed],
                    messages, Tail(rest))

\* findPotentialDuplicates(messages) on the instance `this`: the returned
\* {duplicateGroups, stats} and what the inner deduplicate call leaves.
findPotentialDuplicates(this, messages) ==
  LET r == deduplicate(this, messages)
      \* `after` is the argument array as the deduplicate call left it
      acc == CHOOSE result \in
               {groupsLoop([duplicateGroups |-> <<>>, processed |-> {}],
                           after, after) :
                  after \in {argumentAfterSort(messages,
                                               sortNewestFirst(messages))}} :
               TRUE
  IN [duplicateGroups |-> acc.duplicateGroups, dedup |-> r]

---------------------------------------------------------------------------
VARIABLES
  messages,        \* the batch the host has collected so far
  this,            \* the MessageDeduplicator instance (its four indexes)
  lastCall,        \* "none", "deduplicate" or "findPotentialDuplicates"
  lastInput,       \* the argument of the last call
  uniqueMessages,  \* returned by the last call
  stats,           \* returned by the last call
  duplicateGroups, \* returned by the last findPotentialDuplicates call
  dirty,           \* whether an index was non-empty when the last call began
  sortedMessages,  \* the scan order of the last call
  verdicts         \* what isDuplicate answered for each scanned message

\* One application of a private helper of MessageDeduplicator.
VARIABLES
  helper,          \* "none", "called" or "returned"
  msgA,            \* first argument of isFuzzyMatch (message1)
  msgB,            \* second argument of isFuzzyMatch (message2)
  matched,         \* what isFuzzyMatch returned
  strA,            \* first argument of calculateSimilarity (str1)
  strB,            \* second argument of calculateSimilarity (str2)
  similarity       \* what calculateSimilarity returned

helperVars == <<helper, msgA, msgB, matched, strA, strB, similarity>>

\* No helper is being applied on its own.
NoHelperCall ==
  /\ helper = "none"
  /\ msgA = "none"
  /\ msgB = "none"
  /\ matched = "none"
  /\ strA = "none"
  /\ strB = "none"
  /\ similarity = "none"

\* MailCache: the cache database, the clock, and the calls made on it.
VARIABLES
  clock,           \* Date.now()
  mailDb,          \* the tables folders, messages, message_lists, search_cache
  lastPut,         \* the last cache* call: name, arguments, time
  cacheOp,         \* the call made since, if any: name, arguments, time, result
  puts             \* number of cache* calls made so far

cacheVars == <<clock, mailDb, lastPut, cacheOp, puts>>

\* No MailCache has been constructed.
NoCache ==
  /\ clock = "none"
  /\ mailDb = "none"
  /\ lastPut = "none"
  /\ cacheOp = "none"
  /\ puts = "none"

\* The state outside the deduplicator and its host.
\* The calendar side: CalendarCache, the transaction of a batch write and
\* its reader, and a CalendarClient.
VARIABLES
  calDb,           \* the committed database of CalendarCache
  tx,              \* the transaction of the batch write in progress
  observed,        \* what a reader on another connection last saw
  outcome,         \* how the last batch write ended
  batches,         \* number of batch writes started so far
  request,         \* the CalendarClient call in progress or just ended
  calls            \* number of CalendarClient calls made so far

calendarVars == <<calDb, tx, observed, outcome, batches, request, calls>>

\* No CalendarCache is in use.
NoCalendar ==
  /\ calDb = "none"
  /\ tx = "none"
  /\ observed = "none"
  /\ outcome = "none"
  /\ batches = "none"
  /\ request = "none"
  /\ calls = "none"

\* SecurityManager.checkRateLimit and the calls made on it.
VARIABLES
  manager,         \* whose SecurityManager it is: "reminders" or "mail"
  requestCounts,   \* the static Map identifier -> {count, resetTime}
  checks           \* the checkRateLimit calls made so far, with their results

limiterVars == <<manager, requestCounts, checks>>

\* No SecurityManager is in use.
NoLimiter ==
  /\ manager = "none"
  /\ requestCounts = "none"
  /\ checks = "none"

\* HybridEmailClient: its two sources and the call made on it.
VARIABLES
  macMailDb,       \* what macMailDb.getRecentMessages does
  imapSource,         \* the IMAP configuration and what getImapMessages does
  hybridCall       \* the last getMessages / getStatistics call and its result

hybridVars == <<macMailDb, imapSource, hybridCall>>

\* No HybridEmailClient has been constructed.
NoHybridClient ==
  /\ macMailDb = "none"
  /\ imapSource = "none"
  /\ hybridCall = "none"

outsideDeduplicator ==
  <<helperVars, cacheVars, calendarVars, limiterVars, hybridVars>>

vars == <<messages, this, lastCall, lastInput, uniqueMessages, stats,
          duplicateGroups, dirty, sortedMessages, verdicts,
          outsideDeduplicator>>

\* A new deduplicator and a host that has fetched nothing.
NewHost ==
  /\ messages = <<>>
  /\ this = NewDeduplicator
  /\ lastCall = "none"
  /\ lastInput = <<>>
  /\ uniqueMessages = <<>>
  /\ stats = InitialStats(<<>>)
  /\ duplicateGroups = <<>>
  /\ dirty = FALSE
  /\ sortedMessages = <<>>
  /\ verdicts = <<>>

Init ==
  /\ NoLimiter
  /\ NoHybridClient
  /\ NewHost
  /\ NoHelperCall
  /\ NoCache
  /\ NoCalendar

\* The host adds a fetched message to its batch.
Fetch(m) ==
  /\ Len(messages) < MaxLen
  /\ messages' = Append(messages, m)
  /\ UNCHANGED <<this, lastCall, lastInput, uniqueMessages, stats,
                 duplicateGroups, dirty, sortedMessages, verdicts>>
  /\ UNCHANGED outsideDeduplicator

\* What a deduplicate run r on `input` leaves in the instance and hands back.
Return(call, input, r) ==
  /\ this' = r.this
  /\ lastCall' = call
  /\ dirty' = (this # NewDeduplicator)
  /\ lastInput' = input
  /\ uniqueMessages' = r.uniqueMessages
  /\ stats' = r.stats
  /\ sortedMessages' = r.sortedMessages
  /\ verdicts' = r.verdicts
  /\ UNCHANGED outsideDeduplicator

\* The host's batch is the array the call was given, as the sort left it.
ArgumentAfter == messages' = argumentAfterSort(messages, sortedMessages')

\* deduplicator.deduplicate(allMessages)
Deduplicate ==
  /\ Return("deduplicate", messages, deduplicate(this, messages))
  /\ ArgumentAfter
  /\ UNCHANGED duplicateGroups

\* deduplicator.deduplicate(messages) where messages is the unique list an
\* earlier deduplicate call returned (HybridEmailClient.getStatistics).
DeduplicateAgain ==
  /\ lastCall = "deduplicate"
  /\ Return("deduplicate", uniqueMessages, deduplicate(this, uniqueMessages))
  /\ UNCHANGED <<messages, duplicateGroups>>

\* deduplicator.findPotentialDuplicates(messages)
FindPotentialDuplicates ==
  LET r == findPotentialDuplicates(this, messages)
  IN /\ Return("findPotentialDuplicates", messages, r.dedup)
     /\ duplicateGroups' = r.duplicateGroups
     /\ ArgumentAfter

Next ==
  \/ \E m \in Pool : Fetch(m)
  \/ Deduplicate
  \/ DeduplicateAgain
  \/ FindPotentialDuplicates

Spec == Init /\ [][Next]_vars

---------------------------------------------------------------------------
(* isFuzzyMatch and calculateSimilarity applied on their own.              *)

Budgets == <<66, 117, 100, 103, 101, 116, 115>>              \* "Budgets"
QuotedA == <<34, 65, 34, 32, 60, 97, 64, 120, 46, 99, 111, 109, 62>>
                                                             \* "A" <a@x.com>
BtX     == <<98, 64, 120, 46, 99, 111, 109>>                 \* "b@x.com"
Day     == 24 * Hour

\* The arguments isFuzzyMatch is applied to: equal, similar, dissimilar and
\* empty subjects; senders equal up to case, blanks and quoting, and another
\* sender; dates exactly, less than and more than 24 hours apart.
FuzzySubjects == {Budget, Budgets, ReBudget, <<>>}
FuzzySenders == {AtX, ATXsp, QuotedA, BtX}
FuzzyDates == {T, T + Day, T + Day + 1}
FuzzyInputs ==
  {Msg("m", 0, "", s, f, d, ICloud, "imap") :
     s \in FuzzySubjects, f \in FuzzySenders, d \in FuzzyDates}

hostVars == <<messages, this, lastCall, lastInput, uniqueMessages, stats,
              duplicateGroups, dirty, sortedMessages, verdicts>>

\* The state outside a helper call.
outsideHelpers ==
  <<hostVars, cacheVars, calendarVars, limiterVars, hybridVars>>

InitFuzzyMatch ==
  /\ NoLimiter
  /\ NoHybridClient
  /\ NewHost
  /\ NoCache
  /\ NoCalendar
  /\ helper = "called"
  /\ msgA \in FuzzyInputs
  /\ msgB \in FuzzyInputs
  /\ matched = "none"
  /\ strA = "none"
  /\ strB = "none"
  /\ similarity = "none"

\* this.isFuzzyMatch(msgA, msgB)
IsFuzzyMatch ==
  /\ helper = "called"
  /\ helper' = "returned"
  /\ matched' = isFuzzyMatch(msgA, msgB)
  /\ UNCHANGED <<msgA, msgB, strA, strB, similarity>>
  /\ UNCHANGED outsideHelpers

NextFuzzyMatch == IsFuzzyMatch

SpecFuzzyMatch == InitFuzzyMatch /\ [][NextFuzzyMatch]_vars

MaxStrLen == 3

\* "a", "b" and "A"
Alphabet == {97, 98, 65}

Strings == UNION {[1..n -> Alphabet] : n \in 0..MaxStrLen}

InitSimilarity ==
  /\ NoLimiter
  /\ NoHybridClient
  /\ NewHost
  /\ NoCache
  /\ NoCalendar
  /\ helper = "called"
  /\ msgA = "none"
  /\ msgB = "none"
  /\ matched = "none"
  /\ strA \in Strings
  /\ strB \in Strings
  /\ similarity = "none"

\* this.calculateSimilarity(strA, strB)
CalculateSimilarity ==
  /\ helper = "called"
  /\ helper' = "returned"
  /\ similarity' = calculateSimilarity(strA, strB)
  /\ UNCHANGED <<msgA, msgB, matched, strA, strB>>
  /\ UNCHANGED outsideHelpers

NextSimilarity == CalculateSimilarity

SpecSimilarity == InitSimilarity /\ [][NextSimilarity]_vars

---------------------------------------------------------------------------
(* MailCache: the SQLite tables and the statements run on them.            *)

FOLDER_TTL == 60 * 60 * 1000
MESSAGE_LIST_TTL == 5 * 60 * 1000
MESSAGE_CONTENT_TTL == 24 * 60 * 60 * 1000
SEARCH_TTL == 2 * 60 * 1000

\* initializeTables(): four tables without rows.  A table is a function from
\* its primary key to the row.
EmptyDb ==
  [folders |-> <<>>, messages |-> <<>>, message_lists |-> <<>>,
   search_cache |-> <<>>]

\* INSERT OR IGNORE: the row with the same primary key stays, if there is one.
InsertOrIgnore(table, key, row) ==
  [k \in DOMAIN table \cup {key} |-> IF k \in DOMAIN table THEN table[k] ELSE row]

\* INSERT OR REPLACE INTO table ...: the row takes the place of the row with
\* the same primary key, if there is one.
InsertOrReplace(table, key, row) ==
  [k \in DOMAIN table \cup {key} |-> IF k = key THEN row ELSE table[k]]

\* DELETE FROM table WHERE cached_at < horizon
DeleteOlder(table, horizon) ==
  [k \in {j \in DOMAIN table : ~(table[j].cached_at < horizon)} |-> table[k]]

\* JSON.stringify / JSON.parse of an array of strings.
JSONstringify(value) == <<"json", value>>
JSONparse(text) == text[2]

\* A result of type `T | null`: null, or a value of T.
Null == [null |-> TRUE]
NonNull(value) == [null |-> FALSE, value |-> value]

\* `value || null` for a string or undefined value
OrNull(value) == IF value \in {"undefined", ""} THEN "null" ELSE value

\* `flag ? 1 : 0`
ToInteger(flag) == IF flag THEN 1 ELSE 0

\* this.statements.insertFolder.run(...) for each folder of the batch
RECURSIVE insertFolders(_, _, _)
insertFolders(table, folders, now) ==
  IF folders = <<>> THEN table
  ELSE LET folder == Head(folders)
       IN insertFolders(
            InsertOrReplace(table, <<folder.name, folder.accountName>>,
                            [name |-> folder.name,
                             account_name |-> folder.accountName,
                             message_count |-> folder.messageCount,
                             unread_count |-> folder.unreadCount,
                             cached_at |-> now]),
            Tail(folders), now)

cacheFolders(db, folders, now) ==
  [db EXCEPT !.folders = insertFolders(db.folders, folders, now)]

\* The rows come back in no stated order: the result is the set of folders,
\* or null.
getCachedFolders(db, now) ==
  LET minTime == now - FOLDER_TTL
      rows == {k \in DOMAIN db.folders : db.folders[k].cached_at > minTime}
  IN IF rows = {} THEN Null
     ELSE NonNull({[name |-> db.folders[k].name,
                    accountName |-> db.folders[k].account_name,
                    messageCount |-> db.folders[k].message_count,
                    unreadCount |-> db.folders[k].unread_count] : k \in rows})

cacheMessage(db, message, now) ==
  [db EXCEPT !.messages =
     InsertOrReplace(db.messages, message.id,
       [id |-> message.id,
        subject |-> message.subject,
        sender |-> message.sender,
        sender_name |-> OrNull(message.senderName),
        recipients |-> JSONstringify(message.recipients),
        date_sent |-> message.dateSent,
        date_received |-> message.dateReceived,
        content |-> OrNull(message.content),
        snippet |-> OrNull(message.snippet),
        mailbox |-> message.mailbox,
        account_name |-> message.accountName,
        is_read |-> ToInteger(message.isRead),
        is_flagged |-> ToInteger(message.isFlagged),
        has_attachments |-> ToInteger(message.hasAttachments),
        cached_at |-> now])]

RECURSIVE cacheMessages(_, _, _)
cacheMessages(db, batch, now) ==
  IF batch = <<>> THEN db
  ELSE cacheMessages(cacheMessage(db, Head(batch), now), Tail(batch), now)

getCachedMessage(db, id, includeContent, now) ==
  LET ttl == IF includeContent THEN MESSAGE_CONTENT_TTL ELSE MESSAGE_LIST_TTL
      minTime == now - ttl
  IN IF ~(id \in DOMAIN db.messages /\ db.messages[id].cached_at > minTime)
       THEN Null
     ELSE LET row == db.messages[id]
          IN NonNull(
             [id |-> row.id,
              subject |-> row.subject,
              sender |-> row.sender,
              senderName |-> row.sender_name,
              recipients |-> JSONparse(row.recipients),
              dateSent |-> row.date_sent,
              dateReceived |-> row.date_received,
              content |-> IF includeContent THEN row.content ELSE "undefined",
              snippet |-> row.snippet,
              mailbox |-> row.mailbox,
              accountName |-> row.account_name,
              isRead |-> row.is_read = 1,
              isFlagged |-> row.is_flagged = 1,
              hasAttachments |-> row.has_attachments = 1])

cacheMessageList(db, cacheKey, messageIds, totalCount, now) ==
  [db EXCEPT !.message_lists =
     InsertOrReplace(db.message_lists, cacheKey,
       [cache_key |-> cacheKey,
        message_ids |-> JSONstringify(messageIds),
        total_count |-> totalCount,
        cached_at |-> now])]

getCachedMessageList(db, cacheKey, now) ==
  LET minTime == now - MESSAGE_LIST_TTL
  IN IF ~(/\ cacheKey \in DOMAIN db.message_lists
          /\ db.message_lists[cacheKey].cached_at > minTime)
       THEN Null
     ELSE NonNull(
            [messageIds |-> JSONparse(db.message_lists[cacheKey].message_ids),
             totalCount |-> db.message_lists[cacheKey].total_count])

cacheSearchResults(db, query, searchIn, messageIds, now) ==
  [db EXCEPT !.search_cache =
     InsertOrReplace(db.search_cache, <<query, searchIn>>,
       [query |-> query,
        search_in |-> searchIn,
        result_ids |-> JSONstringify(messageIds),
        cached_at |-> now])]

\* getCachedSearchResults reading with the TTL of another entity class.
getCachedSearchResultsListTtl(db, query, searchIn, now) ==
  LET minTime == now - MESSAGE_LIST_TTL
  IN IF ~(/\ <<query, searchIn>> \in DOMAIN db.search_cache
          /\ db.search_cache[<<query, searchIn>>].cached_at > minTime)
       THEN Null
     ELSE NonNull(JSONparse(db.search_cache[<<query, searchIn>>].result_ids))

getCachedSearchResults(db, query, searchIn, now) ==
  LET minTime == now - SEARCH_TTL
  IN IF ~(/\ <<query, searchIn>> \in DOMAIN db.search_cache
          /\ db.search_cache[<<query, searchIn>>].cached_at > minTime)
       THEN Null
     ELSE NonNull(JSONparse(db.search_cache[<<query, searchIn>>].result_ids))

\* cleanup with a horizon of one hour.
cleanupOneHour(db, now) ==
  LET oneHourAgo == now - (60 * 60 * 1000)
  IN [folders |-> DeleteOlder(db.folders, oneHourAgo),
      messages |-> DeleteOlder(db.messages, oneHourAgo),
      message_lists |-> DeleteOlder(db.message_lists, oneHourAgo),
      search_cache |-> DeleteOlder(db.search_cache, oneHourAgo)]

\* cleanup without the DELETE on search_cache.
cleanupThreeTables(db, now) ==
  LET oneDayAgo == now - (24 * 60 * 60 * 1000)
  IN [folders |-> DeleteOlder(db.folders, oneDayAgo),
      messages |-> DeleteOlder(db.messages, oneDayAgo),
      message_lists |-> DeleteOlder(db.message_lists, oneDayAgo),
      search_cache |-> db.search_cache]

cleanup(db, now) ==
  LET oneDayAgo == now - (24 * 60 * 60 * 1000)
  IN [folders |-> DeleteOlder(db.folders, oneDayAgo),
      messages |-> DeleteOlder(db.messages, oneDayAgo),
      message_lists |-> DeleteOlder(db.message_lists, oneDayAgo),
      search_cache |-> DeleteOlder(db.search_cache, oneDayAgo)]

---------------------------------------------------------------------------
(* A host using one MailCache.                                             *)

MaxPuts == 2

\* The instants at which the host acts, in milliseconds: a row written at 0
\* is read when it is exactly as old as a TTL, a row written later when it is
\* younger, and any row when it is older.
Instants ==
  {0, SEARCH_TTL, MESSAGE_LIST_TTL, FOLDER_TTL, MESSAGE_CONTENT_TTL,
   MESSAGE_CONTENT_TTL + 1}

MailFolder(name, messageCount) ==
  [name |-> name, accountName |-> "iCloud", messageCount |-> messageCount,
   unreadCount |-> 0]

MailMessage(id, content) ==
  [id |-> id, subject |-> "Budget", sender |-> "a@x.com",
   senderName |-> "undefined", recipients |-> <<"b@x.com">>,
   dateSent |-> "2024-01-01", dateReceived |-> "2024-01-01",
   content |-> content, snippet |-> "Hello", mailbox |-> "INBOX",
   accountName |-> "iCloud", isRead |-> TRUE, isFlagged |-> FALSE,
   hasAttachments |-> FALSE]

FolderBatches ==
  {<<MailFolder("INBOX", 1)>>,
   <<MailFolder("INBOX", 2), MailFolder("Sent", 1)>>}
MessageInputs == {MailMessage("m1", "undefined")}
MessageBatches == {<<MailMessage("m1", "Text"), MailMessage("m2", "Body")>>}
MessageIds == {"m1", "m2"}
CacheKeys == {"INBOX:0:50"}
MessageIdLists == {<<"m1">>, <<"m2", "m1">>}
Queries == {<<"budget", "subject">>}
SearchResults == {<<"m2", "m1">>}

InitMailCache ==
  /\ NoLimiter
  /\ NoHybridClient
  /\ NewHost
  /\ NoHelperCall
  /\ NoCalendar
  /\ clock = 0
  /\ mailDb = EmptyDb
  /\ lastPut = [name |-> "none"]
  /\ cacheOp = [name |-> "none"]
  /\ puts = 0

\* The state outside the cache and its host.
outsideCache ==
  <<hostVars, helperVars, calendarVars, limiterVars, hybridVars>>

\* Time passes between two calls.
Tick(t) ==
  /\ t > clock
  /\ clock' = t
  /\ UNCHANGED <<mailDb, lastPut, cacheOp, puts>>
  /\ UNCHANGED outsideCache

\* A call that writes: the database after it, and the record of the call
\* with the database it was made on.
Put(db, op) ==
  /\ puts < MaxPuts
  /\ puts' = puts + 1
  /\ mailDb' = db
  /\ lastPut' = [call |-> op, before |-> mailDb] @@ op
  /\ cacheOp' = [name |-> "none"]
  /\ UNCHANGED clock
  /\ UNCHANGED outsideCache

\* A getter runs SELECT statements only: the database after it.
afterSelectEvicting(db, now) ==
  [folders |-> DeleteOlder(db.folders, now - FOLDER_TTL + 1),
   messages |-> DeleteOlder(db.messages, now - MESSAGE_CONTENT_TTL + 1),
   message_lists |->
     DeleteOlder(db.message_lists, now - MESSAGE_LIST_TTL + 1),
   search_cache |-> DeleteOlder(db.search_cache, now - SEARCH_TTL + 1)]

afterSelect(db, now) == db

\* A call that reads: the record of the call with its result and the
\* database it was made on.
Get(op) ==
  /\ cacheOp' = [before |-> mailDb] @@ op
  /\ mailDb' = afterSelect(mailDb, clock)
  /\ UNCHANGED <<clock, lastPut, puts>>
  /\ UNCHANGED outsideCache

CacheFolders(folders) ==
  Put(cacheFolders(mailDb, folders, clock),
      [name |-> "cacheFolders", folders |-> folders, at |-> clock])

CacheMessage(message) ==
  Put(cacheMessage(mailDb, message, clock),
      [name |-> "cacheMessage", message |-> message, at |-> clock])

CacheMessages(batch) ==
  Put(cacheMessages(mailDb, batch, clock),
      [name |-> "cacheMessages", messages |-> batch, at |-> clock])

CacheMessageList(cacheKey, messageIds) ==
  Put(cacheMessageList(mailDb, cacheKey, messageIds, Len(messageIds), clock),
      [name |-> "cacheMessageList", cacheKey |-> cacheKey,
       messageIds |-> messageIds, totalCount |-> Len(messageIds),
       at |-> clock])

CacheSearchResults(q, messageIds) ==
  Put(cacheSearchResults(mailDb, q[1], q[2], messageIds, clock),
      [name |-> "cacheSearchResults", query |-> q[1], searchIn |-> q[2],
       messageIds |-> messageIds, at |-> clock])

GetCachedFolders ==
  Get([name |-> "getCachedFolders", at |-> clock,
       result |-> getCachedFolders(mailDb, clock)])

GetCachedMessage(id, includeContent) ==
  Get([name |-> "getCachedMessage", id |-> id,
       includeContent |-> includeContent, at |-> clock,
       result |-> getCachedMessage(mailDb, id, includeContent, clock)])

GetCachedMessageList(cacheKey) ==
  Get([name |-> "getCachedMessageList", cacheKey |-> cacheKey, at |-> clock,
       result |-> getCachedMessageList(mailDb, cacheKey, clock)])

GetCachedSearchResults(q) ==
  Get([name |-> "getCachedSearchResults", query |-> q[1], searchIn |-> q[2],
       at |-> clock,
       result |-> getCachedSearchResults(mailDb, q[1], q[2], clock)])

\* cleanup(): the record of the call keeps the database it was run on.
Cleanup ==
  /\ mailDb' = cleanup(mailDb, clock)
  /\ lastPut' = [name |-> "none"]
  /\ cacheOp' = [name |-> "cleanup", at |-> clock, before |-> mailDb]
  /\ UNCHANGED <<clock, puts>>
  /\ UNCHANGED outsideCache

NextMailCache ==
  \/ \E t \in Instants : Tick(t)
  \/ \E folders \in FolderBatches : CacheFolders(folders)
  \/ \E message \in MessageInputs : CacheMessage(message)
  \/ \E batch \in MessageBatches : CacheMessages(batch)
  \/ \E cacheKey \in CacheKeys, messageIds \in MessageIdLists :
       CacheMessageList(cacheKey, messageIds)
  \/ \E q \in Queries, messageIds \in SearchResults :
       CacheSearchResults(q, messageIds)
  \/ GetCachedFolders
  \/ \E id \in MessageIds, includeContent \in BOOLEAN :
       GetCachedMessage(id, includeContent)
  \/ \E cacheKey \in CacheKeys : GetCachedMessageList(cacheKey)
  \/ \E q \in Queries : GetCachedSearchResults(q)
  \/ Cleanup

SpecMailCache == InitMailCache /\ [][NextMailCache]_vars

---------------------------------------------------------------------------
(* Properties of deduplicate.                                              *)

Called == lastCall # "none"

\* The positions of the scan whose message was retained / dropped.
Retained == {i \in 1..Len(verdicts) : verdicts[i] = "none"}
Dropped == {i \in 1..Len(verdicts) : verdicts[i] # "none"}

Methods == stats.deduplicationMethods

\* C1: after every deduplicate call, totalMessages is the input length,
\* uniqueMessages is the length of the returned list, and
\* uniqueMessages + duplicatesRemoved = totalMessages.
C1_Conservation ==
  Called =>
    /\ stats.totalMessages = Len(lastInput)
    /\ stats.uniqueMessages = Len(uniqueMessages)
    /\ stats.uniqueMessages + stats.duplicatesRemoved = stats.totalMessages

C1_Witness ==
  /\ Called
  /\ stats.uniqueMessages = 2
  /\ stats.duplicatesRemoved = 1

\* C2: the four strategy counters sum to duplicatesRemoved; each dropped
\* message is counted under exactly one strategy (the one that caught it)
\* and a retained message under none.
C2_AttributionPartition ==
  Called =>
    /\ Methods.globalMessageId + Methods.messageIdHeader
         + Methods.contentHash + Methods.fuzzyMatch = stats.duplicatesRemoved
    /\ \A s \in DOMAIN Methods :
         Methods[s] = Cardinality({i \in Dropped : verdicts[i] = s})
    /\ Cardinality(Retained) = Len(uniqueMessages)
    /\ Cardinality(Dropped) = stats.duplicatesRemoved

C2_Witness ==
  /\ Called
  /\ Methods.contentHash = 1
  /\ Methods.fuzzyMatch = 1

\* C3: of two messages with the same (set) globalMessageId and different
\* dates, a batch made of the two keeps exactly the later one; in any batch
\* the two are never both kept.
SameGlobalId(m1, m2) ==
  /\ m1.globalMessageId # 0
  /\ m1.globalMessageId = m2.globalMessageId
  /\ m1.date # m2.date

Later(m1, m2) == IF m1.date > m2.date THEN m1 ELSE m2

C3_TieBreak ==
  Called =>
    /\ (Len(lastInput) = 2 /\ SameGlobalId(lastInput[1], lastInput[2]))
         => uniqueMessages = <<Later(lastInput[1], lastInput[2])>>
    /\ \A i, j \in Retained :
         ~SameGlobalId(sortedMessages[i], sortedMessages[j])

\* The older of the two comes first in the input and the later one is kept.
C3_Witness ==
  /\ Called
  /\ Len(lastInput) = 2
  /\ SameGlobalId(lastInput[1], lastInput[2])
  /\ lastInput[1].date < lastInput[2].date
  /\ uniqueMessages = <<lastInput[2]>>
  /\ Methods.globalMessageId = 1

\* C4: running deduplicate, on the same instance, on the unique list a call
\* returned gives that list back in the same order and removes nothing.
C4_Idempotent ==
  Called =>
    LET again == deduplicate(this, uniqueMessages)
    IN /\ again.uniqueMessages = uniqueMessages
       /\ again.stats.duplicatesRemoved = 0
       /\ again.stats.totalMessages = Len(uniqueMessages)

\* A second run on the output of a first run that had removed something.
C4_Witness ==
  /\ lastCall = "deduplicate"
  /\ dirty
  /\ Len(messages) = 3
  /\ Len(lastInput) = 2
  /\ lastInput = uniqueMessages
  /\ stats.duplicatesRemoved = 0

\* Two messages share an identifier.
SharedId(m1, m2) ==
  \/ m1.globalMessageId # 0 /\ m1.globalMessageId = m2.globalMessageId
  \/ m1.messageIdHeader # "" /\ m1.messageIdHeader = m2.messageIdHeader

\* The subjects differ, and only by a reply/forward prefix on one of them.
DifferByReplyPrefix(s1, s2) ==
  /\ toLowerCase(s1) # toLowerCase(s2)
  /\ \/ stripReplyPrefix(toLowerCase(s1)) = toLowerCase(s2)
     \/ stripReplyPrefix(toLowerCase(s2)) = toLowerCase(s1)

ReplyPair(m1, m2) ==
  /\ ~SharedId(m1, m2)
  /\ m1.from = m2.from
  /\ DifferByReplyPrefix(m1.subject, m2.subject)
  /\ \/ m1.date - m2.date = 10 * Minute
     \/ m2.date - m1.date = 10 * Minute

\* C5: a batch of two messages without shared identifiers, from the same
\* sender, whose subjects differ only by a reply/forward prefix and whose
\* dates are 10 minutes apart, comes back as one message, the other being
\* counted under fuzzyMatch.
C5_ReplyPairIsFuzzyDuplicate ==
  (/\ Called
   /\ Len(lastInput) = 2
   /\ ReplyPair(lastInput[1], lastInput[2]))
  => /\ Len(uniqueMessages) = 1
     /\ Methods.fuzzyMatch = 1

\* Position i of the scan has an earlier retained message with the same
\* fuzzy key that passes the pairwise check.
FuzzyMatchesSomeRetained(i) ==
  \E j \in Retained :
    /\ j < i
    /\ fuzzyKeyOf[sortedMessages[j]] = fuzzyKeyOf[sortedMessages[i]]
    /\ fuzzyMatchOf[sortedMessages[i], sortedMessages[j]]

\* C6: a message that passes the three earlier strategies is classified as
\* a fuzzy duplicate whenever any earlier retained message shares its fuzzy
\* key and passes the pairwise check.
C6_AnyRetainedFuzzyMatch ==
  Called =>
    \A i \in 1..Len(verdicts) :
      (verdicts[i] \in {"none", "fuzzyMatch"} /\ FuzzyMatchesSomeRetained(i))
        => verdicts[i] = "fuzzyMatch"

\* Position i of the scan has an earlier retained message with the same
\* globalMessageId / messageIdHeader / content hash.
GlobalIdSeen(i) ==
  /\ sortedMessages[i].globalMessageId # 0
  /\ \E j \in Retained :
       /\ j < i
       /\ sortedMessages[j].globalMessageId = sortedMessages[i].globalMessageId

MessageIdSeen(i) ==
  /\ sortedMessages[i].messageIdHeader # ""
  /\ \E j \in Retained :
       /\ j < i
       /\ sortedMessages[j].messageIdHeader = sortedMessages[i].messageIdHeader

ContentHashSeen(i) ==
  \E j \in Retained :
    /\ j < i
    /\ contentHashOf[sortedMessages[j]] = contentHashOf[sortedMessages[i]]

\* C7: every dropped message is counted under the first strategy, in the
\* order global id, header id, content hash, fuzzy match, that matches it
\* against the messages retained before it; a message whose global id was
\* seen is counted under globalMessageId whatever else matches, and so on.
C7_FirstStrategyWins ==
  Called =>
    \A i \in 1..Len(verdicts) :
      /\ GlobalIdSeen(i) <=> verdicts[i] = "globalMessageId"
      /\ (~GlobalIdSeen(i) /\ MessageIdSeen(i))
           <=> verdicts[i] = "messageIdHeader"
      /\ (~GlobalIdSeen(i) /\ ~MessageIdSeen(i) /\ ContentHashSeen(i))
           <=> verdicts[i] = "contentHash"
      /\ verdicts[i] = "fuzzyMatch"
           => /\ ~GlobalIdSeen(i) /\ ~MessageIdSeen(i) /\ ~ContentHashSeen(i)
              /\ FuzzyMatchesSomeRetained(i)

\* One dropped message matches on global id, header and hash and is counted
\* under globalMessageId; another matches on header and hash and is counted
\* under messageIdHeader.
C7_Witness ==
  /\ Called
  /\ \E i \in 1..Len(verdicts) :
       /\ verdicts[i] = "globalMessageId"
       /\ MessageIdSeen(i) /\ ContentHashSeen(i)
  /\ \E i \in 1..Len(verdicts) :
       /\ verdicts[i] = "messageIdHeader"
       /\ ContentHashSeen(i)

\* C8: what a call returns is what a freshly constructed instance returns
\* for the same input, whatever the instance was used for before.
C8_CallScoped ==
  Called =>
    LET fresh == findPotentialDuplicates(NewDeduplicator, lastInput)
    IN /\ uniqueMessages = fresh.dedup.uniqueMessages
       /\ stats = fresh.dedup.stats
       /\ this = fresh.dedup.this
       /\ lastCall = "findPotentialDuplicates"
            => duplicateGroups = fresh.duplicateGroups

\* A call on an instance whose indexes an earlier call had filled, with an
\* input that has duplicates.
C8_Witness ==
  /\ Called
  /\ dirty
  /\ Len(lastInput) = 3
  /\ Len(uniqueMessages) = 2

\* C9: the returned unique list is in date-descending order.
C9_DateDescending ==
  Called =>
    \A i \in 1..(Len(uniqueMessages) - 1) :
      uniqueMessages[i].date >= uniqueMessages[i + 1].date

\* The input was not in date-descending order.
C9_Witness ==
  /\ Called
  /\ Len(uniqueMessages) = 3
  /\ lastInput[1].date < lastInput[2].date
  /\ lastInput[2].date < lastInput[3].date

\* Two messages without identifiers that agree on the four hashed fields.
SameContent(m1, m2) ==
  /\ m1.globalMessageId = 0 /\ m2.globalMessageId = 0
  /\ m1.messageIdHeader = "" /\ m2.messageIdHeader = ""
  /\ trim(toLowerCase(m1.subject)) = trim(toLowerCase(m2.subject))
  /\ trim(toLowerCase(m1.from)) = trim(toLowerCase(m2.from))
  /\ m1.date \div Minute = m2.date \div Minute
  /\ toLowerCase(m1.account) = toLowerCase(m2.account)

sameContentOf == [m1 \in Pool, m2 \in Pool |-> SameContent(m1, m2)]

\* C10: two messages without identifiers that agree on subject and sender
\* (lowercased, trimmed), on the date to the minute and on the account
\* (lowercased) have the same content hash; a batch of the two keeps one and
\* counts the other under contentHash, and no batch keeps both.
C10_SameContentSameHash ==
  /\ \A m1, m2 \in Pool :
       sameContentOf[m1, m2] => contentHashOf[m1] = contentHashOf[m2]
  /\ Called =>
       /\ (Len(lastInput) = 2 /\ sameContentOf[lastInput[1], lastInput[2]])
            => /\ Len(uniqueMessages) = 1
               /\ Methods.contentHash = 1
               /\ stats.duplicatesRemoved = 1
       /\ \A i, j \in Retained :
            i # j => ~sameContentOf[sortedMessages[i], sortedMessages[j]]

\* The two messages differ in case and surrounding blanks, and in seconds.
C10_Witness ==
  /\ Called
  /\ Len(lastInput) = 2
  /\ sameContentOf[lastInput[1], lastInput[2]]
  /\ lastInput[1].subject # lastInput[2].subject
  /\ lastInput[1].date # lastInput[2].date
  /\ Methods.contentHash = 1

\* C11: deduplicate on the empty list returns an empty unique list and a
\* stats object whose nine counters are all zero.
C11_EmptyBatch ==
  (Called /\ lastInput = <<>>) =>
    /\ uniqueMessages = <<>>
    /\ stats.totalMessages = 0
    /\ stats.uniqueMessages = 0
    /\ stats.duplicatesRemoved = 0
    /\ stats.bySource.macMail = 0
    /\ stats.bySource.imap = 0
    /\ Methods.globalMessageId = 0
    /\ Methods.messageIdHeader = 0
    /\ Methods.contentHash = 0
    /\ Methods.fuzzyMatch = 0

\* deduplicate has been called on the empty list.
C11_Witness ==
  /\ lastCall = "deduplicate"
  /\ lastInput = <<>>

---------------------------------------------------------------------------
(* Properties of findPotentialDuplicates.                                  *)

Grouped(m) ==
  \E g \in 1..Len(duplicateGroups) :
    \E k \in 1..Len(duplicateGroups[g]) : duplicateGroups[g][k].id = m.id

\* One of the four relations deduplicate uses holds between m1 and m2.
RelatedByAnyStrategy(m1, m2) ==
  \/ SharedId(m1, m2)
  \/ contentHashOf[m1] = contentHashOf[m2]
  \/ fuzzyMatchOf[m1, m2]

\* C14: every input message that shares a global id, a header id or a
\* content hash with another input message, or fuzzy-matches one, is in one
\* of the groups findPotentialDuplicates returns.
C14_EveryRelatedMessageGrouped ==
  lastCall = "findPotentialDuplicates" =>
    \A i, j \in 1..Len(lastInput) :
      (/\ lastInput[i].id # lastInput[j].id
       /\ RelatedByAnyStrategy(lastInput[i], lastInput[j]))
        => Grouped(lastInput[i])

\* C15: findPotentialDuplicates returns groups of at least two members, no
\* message is in two groups, every member is an input message, and the
\* input list holds the same elements in the same order afterwards.
C15_GroupsWellFormed ==
  lastCall = "findPotentialDuplicates" =>
    /\ \A g \in 1..Len(duplicateGroups) : Len(duplicateGroups[g]) >= 2
    /\ \A g, h \in 1..Len(duplicateGroups) :
         g # h =>
           \A k \in 1..Len(duplicateGroups[g]), l \in 1..Len(duplicateGroups[h]) :
             duplicateGroups[g][k].id # duplicateGroups[h][l].id
    /\ \A g \in 1..Len(duplicateGroups) :
         \A k \in 1..Len(duplicateGroups[g]) :
           \E i \in 1..Len(lastInput) : lastInput[i] = duplicateGroups[g][k]
    \* no message has been fetched since the call returned
    /\ Len(messages) = Len(lastInput) => messages = lastInput

\* A group was returned, one input message is in no group, and the input
\* was not in the order deduplicate scans it in.
C15_Witness ==
  /\ lastCall = "findPotentialDuplicates"
  /\ duplicateGroups # <<>>
  /\ \E i \in 1..Len(lastInput) : ~Grouped(lastInput[i])
  /\ messages = lastInput
  /\ lastInput # sortedMessages

---------------------------------------------------------------------------
(* Properties of the helpers.                                              *)

\* C12: isFuzzyMatch(A, B) = isFuzzyMatch(B, A) for all messages A and B.
C12_FuzzyMatchSymmetric ==
  helper = "returned" => matched = isFuzzyMatch(msgB, msgA)

\* Two different messages with different subjects and differently written
\* senders that match.
C12_Witness ==
  /\ helper = "returned"
  /\ matched = TRUE
  /\ msgA.subject # msgB.subject
  /\ msgA.from # msgB.from
  /\ msgA.date # msgB.date

\* The edit distance by its defining recurrence.
RECURSIVE EditDistance(_, _)
EditDistance(a, b) ==
  IF a = <<>> THEN Len(b)
  ELSE IF b = <<>> THEN Len(a)
  ELSE Min3(EditDistance(Tail(a), b) + 1,
            EditDistance(a, Tail(b)) + 1,
            EditDistance(Tail(a), Tail(b))
              + (IF Head(a) = Head(b) THEN 0 ELSE 1))

\* C13: calculateSimilarity(a, b) = 1 - d / max(len(a), len(b)) where d is
\* the edit distance of the lowercased strings; it is 1 when the strings are
\* equal ignoring case, 0 when exactly one is empty, and lies in [0, 1].
C13_SimilarityFormula ==
  helper = "returned" =>
    LET a == toLowerCase(strA)
        b == toLowerCase(strB)
        maxLength == Max(Len(strA), Len(strB))
    IN /\ maxLength > 0 =>
            similarity.num * maxLength
              = (maxLength - EditDistance(a, b)) * similarity.den
       /\ a = b => similarity.num = similarity.den
       /\ (Len(strA) = 0) # (Len(strB) = 0) => similarity.num = 0
       /\ 0 <= similarity.num
       /\ similarity.num <= similarity.den
       /\ similarity.den > 0

\* Strings of different lengths that differ in case and in a letter, with a
\* similarity strictly between 0 and 1.
C13_Witness ==
  /\ helper = "returned"
  /\ Len(strA) # Len(strB)
  /\ strA # toLowerCase(strA)
  /\ 0 < similarity.num
  /\ similarity.num < similarity.den


---------------------------------------------------------------------------
(* CalendarCache: the SQLite cache of calendars and events.                *)

DEFAULT_TTL == 15 * 60 * 1000
OLD_EVENT_TTL == 60 * 60 * 1000
CALENDAR_LIST_TTL == 24 * 60 * 60 * 1000

\* initializeSchema(): the tables calendars and events without rows (the
\* table sync_status is never written).  PRAGMA foreign_keys is not set.
EmptyCalendarDb == [calendars |-> <<>>, events |-> <<>>]

\* The texts of the model in the order of SQLite's BINARY collation, which
\* compares the bytes: digits sort before capitals.
TextOrder ==
  <<"2023-12-25", "2024 m. sausio 12 d., penktadienis 09:00:00",
    "2024 m. sausio 2 d., antradienis 09:00:00", "2024-01-01", "2024-01-05",
    "2024-01-20", "2024-12-31", "Home",
    "Monday, January 1, 2024 at 10:00:00 AM",
    "Tue, Jan 2, 2024, 09:00 AM PST",
    "Wed, Jan 10, 2024, 09:00 AM PST", "Work">>

TextRank(text) == CHOOSE i \in DOMAIN TextOrder : TextOrder[i] = text

\* a <= b on TEXT columns
TextLeq(a, b) == TextRank(a) <= TextRank(b)

\* new Date(text).getTime() in milliseconds since 2024-01-01T00:00 PST, or
\* NaN for a text that Date cannot parse.
DateGetTime(text) ==
  CASE text = "Tue, Jan 2, 2024, 09:00 AM PST" ->
         [isNaN |-> FALSE, time |-> Day + 9 * Hour]
    [] text = "Wed, Jan 10, 2024, 09:00 AM PST" ->
         [isNaN |-> FALSE, time |-> 9 * Day + 9 * Hour]
    [] OTHER -> [isNaN |-> TRUE]

\* A statement that ran, with the tables after it, and one that raised.
Ran(db) == [threw |-> FALSE, db |-> db]
Threw == [threw |-> TRUE]

\* INSERT OR REPLACE INTO calendars (name, last_sync, is_active): the
\* columns not named take their defaults.
insertCalendar(db, calendar, now) ==
  Ran([db EXCEPT !.calendars =
         InsertOrReplace(db.calendars, calendar,
           [name |-> calendar, last_sync |-> now, event_count |-> 0,
            access_count |-> 0, last_accessed |-> "null"])])

\* DELETE FROM events WHERE calendar_name = ?
deleteEvents(db, cal) ==
  Ran([db EXCEPT !.events =
         [k \in {j \in DOMAIN db.events : db.events[j].calendar_name # cal}
            |-> db.events[k]]])

getTTLForEvent(event, now) ==
  LET eventDate == DateGetTime(event.startDate)
  IN IF eventDate.isNaN THEN OLD_EVENT_TTL
     ELSE LET diff == eventDate.time - now
              absDiff == IF diff < 0 THEN -diff ELSE diff
          IN IF absDiff <= 7 * Day THEN DEFAULT_TTL ELSE OLD_EVENT_TTL

\* INSERT INTO events: id is the PRIMARY KEY, so the statement raises when
\* the table holds a row with this id.
insertEvent(db, event, now) ==
  IF event.id \in DOMAIN db.events THEN Threw
  ELSE Ran([db EXCEPT !.events =
              InsertOrReplace(db.events, event.id,
                [id |-> event.id,
                 calendar_name |-> event.calendarName,
                 title |-> event.title,
                 start_date |-> event.startDate,
                 end_date |-> event.endDate,
                 location |-> OrNull(event.location),
                 description |-> OrNull(event.description),
                 is_all_day |-> ToInteger(event.isAllDay),
                 cached_at |-> now,
                 expires_at |-> now + getTTLForEvent(event, now)])])

\* UPDATE calendars SET event_count = (SELECT COUNT(*) ...), last_sync = ?
\* WHERE name = ?
updateEventCount(db, cal, now) ==
  Ran(IF cal \in DOMAIN db.calendars
        THEN [db EXCEPT !.calendars[cal] =
                [@ EXCEPT !.event_count =
                            Cardinality({k \in DOMAIN db.events :
                                           db.events[k].calendar_name = cal}),
                          !.last_sync = now]]
      ELSE db)

\* new Set(events.map(e => e.calendarName)), in insertion order
RECURSIVE calendarsOf(_, _)
calendarsOf(events, seen) ==
  IF events = <<>> THEN seen
  ELSE LET cal == Head(events).calendarName
       IN calendarsOf(Tail(events),
                      IF \E i \in DOMAIN seen : seen[i] = cal THEN seen
                      ELSE Append(seen, cal))

\* The statements that the transaction of cacheCalendars runs, in order.
cacheCalendarsStatements(calendars) ==
  [i \in DOMAIN calendars |-> [run |-> "insertCalendar", arg |-> calendars[i]]]

\* The statements that the transaction of cacheEvents runs, in order.
cacheEventsStatements(events, calendarName) ==
  LET cals == calendarsOf(events, <<>>)
      deletes == IF calendarName # "undefined"
                   THEN <<[run |-> "deleteEvents", arg |-> calendarName]>>
                 ELSE [i \in DOMAIN cals |->
                         [run |-> "deleteEvents", arg |-> cals[i]]]
      inserts == [i \in DOMAIN events |->
                    [run |-> "insertEvent", arg |-> events[i]]]
      updates == [i \in DOMAIN cals |->
                    [run |-> "updateEventCount", arg |-> cals[i]]]
  IN deletes \o inserts \o updates

\* The statements that the transaction of MailCache.cacheFolders runs.
cacheFoldersStatements(folders) ==
  [i \in DOMAIN folders |-> [run |-> "insertFolder", arg |-> folders[i]]]

\* The statements that the transaction of MailCache.cacheMessages runs.
cacheMessagesStatements(batch) ==
  [i \in DOMAIN batch |-> [run |-> "insertMessage", arg |-> batch[i]]]

\* One statement of a transaction on the database of its cache.
runStatement(db, statement, now) ==
  CASE statement.run = "insertFolder" ->
         Ran([db EXCEPT !.folders =
                insertFolders(db.folders, <<statement.arg>>, now)])
    [] statement.run = "insertMessage" ->
         Ran(cacheMessage(db, statement.arg, now))
    [] statement.run = "insertCalendar" ->
         insertCalendar(db, statement.arg, now)
    [] statement.run = "deleteEvents" -> deleteEvents(db, statement.arg)
    [] statement.run = "insertEvent" -> insertEvent(db, statement.arg, now)
    [] statement.run = "updateEventCount" ->
         updateEventCount(db, statement.arg, now)

RECURSIVE runStatements(_, _, _)
runStatements(db, statements, now) ==
  IF statements = <<>> THEN Ran(db)
  ELSE LET r == runStatement(db, Head(statements), now)
       IN IF r.threw THEN Threw
          ELSE runStatements(r.db, Tail(statements), now)

\* this.db.transaction(fn)(): BEGIN, the statements, COMMIT; when a
\* statement raises, ROLLBACK and the error is raised to the caller.
transaction(db, statements, now) ==
  LET r == runStatements(db, statements, now)
  IN IF r.threw THEN [threw |-> TRUE, db |-> db] ELSE r

cacheCalendars(db, calendars, now) ==
  transaction(db, cacheCalendarsStatements(calendars), now)

cacheEvents(db, events, calendarName, now) ==
  transaction(db, cacheEventsStatements(events, calendarName), now)

\* The ways of listing each of the keys once.
Listings(keys) ==
  {seq \in [1..Cardinality(keys) -> keys] :
     \A i, j \in DOMAIN seq : i # j => seq[i] # seq[j]}

\* SELECT name, last_sync, event_count FROM calendars WHERE last_sync > ?
\* ORDER BY access_count DESC, name ASC
getCachedCalendars(db, now) ==
  LET validUntil == now - CALENDAR_LIST_TTL
      keys == {k \in DOMAIN db.calendars :
                 db.calendars[k].last_sync > validUntil}
      before(a, b) == \/ a.access_count > b.access_count
                      \/ /\ a.access_count = b.access_count
                         /\ TextLeq(a.name, b.name)
      order == CHOOSE seq \in Listings(keys) :
                 \A i, j \in DOMAIN seq :
                   i < j => before(db.calendars[seq[i]], db.calendars[seq[j]])
  IN IF keys = {} THEN Null
     ELSE NonNull([i \in DOMAIN order |->
                     [name |-> db.calendars[order[i]].name,
                      last_sync |-> db.calendars[order[i]].last_sync,
                      event_count |-> db.calendars[order[i]].event_count]])

\* The columns of an events row under the names of the SELECT.
eventOfRow(row) ==
  [id |-> row.id, title |-> row.title, startDate |-> row.start_date,
   endDate |-> row.end_date, location |-> row.location,
   description |-> row.description, calendarName |-> row.calendar_name,
   isAllDay |-> row.is_all_day]

\* UPDATE calendars SET access_count = access_count + 1, last_accessed = ?
\* WHERE name = ?
updateCalendarAccessStats(db, calendarName, now) ==
  IF calendarName \in DOMAIN db.calendars
    THEN [db EXCEPT !.calendars[calendarName] =
            [@ EXCEPT !.access_count = @ + 1, !.last_accessed = now]]
  ELSE db

\* The events of the calendar (of every calendar when calendarName is
\* undefined) that start in the range and have not expired, by start date;
\* the call also counts the access to the calendar.
getCachedEvents(db, calendarName, startDate, endDate, now) ==
  LET keys == {k \in DOMAIN db.events :
                 /\ calendarName # "undefined"
                      => db.events[k].calendar_name = calendarName
                 /\ TextLeq(startDate, db.events[k].start_date)
                 /\ TextLeq(db.events[k].start_date, endDate)
                 /\ db.events[k].expires_at > now}
      before(a, b) == TextLeq(a.start_date, b.start_date)
      order == CHOOSE seq \in Listings(keys) :
                 \A i, j \in DOMAIN seq :
                   i < j => before(db.events[seq[i]], db.events[seq[j]])
  IN [db |-> IF calendarName # "undefined"
               THEN updateCalendarAccessStats(db, calendarName, now)
             ELSE db,
      result |-> IF keys = {} THEN Null
                 ELSE NonNull([i \in DOMAIN order |->
                                 eventOfRow(db.events[order[i]])])]

\* text LIKE '%query%' on the texts of the model (LIKE ignores the case of
\* ASCII letters; a NULL column matches nothing).
Like(text, query) == <<text, query>> \in {<<"Standup", "stand">>}

\* SELECT ... FROM events WHERE (title LIKE ? OR description LIKE ?) AND
\* expires_at > ? [AND start_date >= ? AND start_date <= ?] ORDER BY
\* start_date ASC LIMIT 500 (the model stores fewer than 500 rows).
searchCachedEvents(db, query, startDate, endDate, now) ==
  LET keys == {k \in DOMAIN db.events :
                 /\ \/ Like(db.events[k].title, query)
                    \/ Like(db.events[k].description, query)
                 /\ db.events[k].expires_at > now
                 /\ (startDate # "undefined" /\ endDate # "undefined") =>
                      /\ TextLeq(startDate, db.events[k].start_date)
                      /\ TextLeq(db.events[k].start_date, endDate)}
      before(a, b) == TextLeq(a.start_date, b.start_date)
      order == CHOOSE seq \in Listings(keys) :
                 \A i, j \in DOMAIN seq :
                   i < j => before(db.events[seq[i]], db.events[seq[j]])
  IN IF keys = {} THEN Null
     ELSE NonNull([i \in DOMAIN order |-> eventOfRow(db.events[order[i]])])

\* SELECT ... FROM events WHERE id = ? AND expires_at > ?
getCachedEvent(db, eventId, now) ==
  IF eventId \in DOMAIN db.events /\ db.events[eventId].expires_at > now
    THEN NonNull(eventOfRow(db.events[eventId]))
  ELSE Null

---------------------------------------------------------------------------
(* Batch writes: the statements of a transaction run one at a time, while  *)
(* another connection reads the database.                                  *)

MaxBatches == 2

CalendarEvent(id, calendarName, startDate) ==
  [id |-> id, title |-> "Standup", startDate |-> startDate,
   endDate |-> startDate, location |-> "undefined",
   description |-> "undefined", calendarName |-> calendarName,
   isAllDay |-> FALSE]

workOne == CalendarEvent("e1", "Work", "Monday, January 1, 2024 at 10:00:00 AM")
workOneAgain == CalendarEvent("e1", "Work", "Tue, Jan 2, 2024, 09:00 AM PST")
workTwo == CalendarEvent("e2", "Work", "Tue, Jan 2, 2024, 09:00 AM PST")
workTwoMoved == CalendarEvent("e2", "Home", "Tue, Jan 2, 2024, 09:00 AM PST")
homeOne == CalendarEvent("h1", "Home", "Wed, Jan 10, 2024, 09:00 AM PST")

CalendarBatches == {<<"Work">>, <<"Home", "Work">>}

\* The event batches with the calendarName argument of cacheEvents: a page
\* of one calendar, a recurring event listed twice under its id, a page of
\* all calendars, and an event that has moved to another calendar.
EventBatches ==
  {<<<<workOne, workTwo>>, "Work">>, <<<<workOne, workOneAgain>>, "Work">>,
   <<<<workOne, homeOne>>, "undefined">>, <<<<workTwoMoved>>, "Home">>}

NoTransaction == [name |-> "none"]

InitBatch ==
  /\ NoLimiter
  /\ NoHybridClient
  /\ NewHost
  /\ NoHelperCall
  /\ clock = 0
  /\ mailDb = EmptyDb
  /\ lastPut = "none"
  /\ cacheOp = "none"
  /\ puts = "none"
  /\ calDb = EmptyCalendarDb
  /\ tx = NoTransaction
  /\ observed = [during |-> NoTransaction]
  /\ outcome = [ended |-> "none"]
  /\ batches = 0
  /\ request = "none"
  /\ calls = "none"

\* The state that a batch write and its reader leave alone.
outsideBatch ==
  <<hostVars, helperVars, lastPut, cacheOp, puts, request, calls,
    limiterVars, hybridVars>>

\* The database that the transaction is on.
databaseOf(name) ==
  IF name \in {"cacheFolders", "cacheMessages"} THEN mailDb ELSE calDb

\* BEGIN: const now = Date.now(), then the transaction function is entered.
Begin(name, statements) ==
  /\ tx = NoTransaction
  /\ batches < MaxBatches
  /\ batches' = batches + 1
  /\ clock' = clock + 1
  /\ tx' = [name |-> name, now |-> clock + 1, batch |-> statements,
            statements |-> statements, before |-> databaseOf(name),
            working |-> databaseOf(name)]
  /\ UNCHANGED <<mailDb, calDb, observed, outcome>>
  /\ UNCHANGED outsideBatch

BeginCacheFolders(folders) ==
  Begin("cacheFolders", cacheFoldersStatements(folders))

BeginCacheMessages(batch) ==
  Begin("cacheMessages", cacheMessagesStatements(batch))

BeginCacheCalendars(calendars) ==
  Begin("cacheCalendars", cacheCalendarsStatements(calendars))

BeginCacheEvents(events, calendarName) ==
  Begin("cacheEvents", cacheEventsStatements(events, calendarName))

\* ROLLBACK: the working copy is dropped and the error is raised.
Rollback ==
  /\ tx' = NoTransaction
  /\ outcome' = [ended |-> "rolledBack", name |-> tx.name,
                 before |-> tx.before, batch |-> tx.batch, now |-> tx.now]
  /\ UNCHANGED <<clock, mailDb, calDb, observed, batches>>
  /\ UNCHANGED outsideBatch

\* The next statement of the transaction runs on the working copy; when it
\* raises (the id of an event is in the table already), the transaction is
\* rolled back.
Statement ==
  /\ tx # NoTransaction
  /\ tx.statements # <<>>
  /\ LET r == runStatement(tx.working, Head(tx.statements), tx.now)
     IN IF r.threw THEN Rollback
        ELSE /\ tx' = [tx EXCEPT !.working = r.db,
                                 !.statements = Tail(tx.statements)]
             /\ UNCHANGED <<clock, mailDb, calDb, observed, outcome, batches>>
             /\ UNCHANGED outsideBatch

\* The next statement raises a storage error (SQLITE_FULL, SQLITE_IOERR).
StorageError ==
  /\ tx # NoTransaction
  /\ tx.statements # <<>>
  /\ Rollback

\* COMMIT: the working copy becomes the database.
Commit ==
  /\ tx # NoTransaction
  /\ tx.statements = <<>>
  /\ IF tx.name \in {"cacheFolders", "cacheMessages"}
       THEN mailDb' = tx.working /\ UNCHANGED calDb
     ELSE calDb' = tx.working /\ UNCHANGED mailDb
  /\ tx' = NoTransaction
  /\ outcome' = [ended |-> "committed", name |-> tx.name,
                 before |-> tx.before, batch |-> tx.batch, now |-> tx.now]
  /\ UNCHANGED <<clock, observed, batches>>
  /\ UNCHANGED outsideBatch

\* What a read sees while a transaction of another connection is open: the
\* rows before the transaction, kept readable by the write-ahead log.
snapshotDirty(committed, working) == working

snapshot(committed, working) == committed

\* A reader on another connection reads the tables.
Read ==
  /\ observed' =
       IF tx = NoTransaction
         THEN [during |-> NoTransaction, mail |-> mailDb, calendar |-> calDb]
       ELSE IF tx.name \in {"cacheFolders", "cacheMessages"}
         THEN [during |-> tx, mail |-> snapshot(mailDb, tx.working),
               calendar |-> calDb]
       ELSE [during |-> tx, mail |-> mailDb,
             calendar |-> snapshot(calDb, tx.working)]
  /\ UNCHANGED <<clock, mailDb, calDb, tx, outcome, batches>>
  /\ UNCHANGED outsideBatch

NextBatch ==
  \/ \E folders \in FolderBatches : BeginCacheFolders(folders)
  \/ \E batch \in MessageBatches : BeginCacheMessages(batch)
  \/ \E calendars \in CalendarBatches : BeginCacheCalendars(calendars)
  \/ \E b \in EventBatches : BeginCacheEvents(b[1], b[2])
  \/ Statement
  \/ StorageError
  \/ Commit
  \/ Read

SpecBatch == InitBatch /\ [][NextBatch]_vars

---------------------------------------------------------------------------
(* CalendarClient: listEvents, getEvent and getCalendars over the cache.   *)
(* A call runs up to each await: the cache read, the AppleScript, the      *)
(* cache write.                                                            *)

MaxCalls == 2

CalendarInstants == {0, DEFAULT_TTL, OLD_EVENT_TTL, CALENDAR_LIST_TTL}

\* The arguments of the calls.
DateRanges == {<<"2024-01-01", "2024-01-20">>, <<"2023-12-25", "2024-01-05">>,
               <<"2023-12-25", "2024-01-20">>}
CalendarNames == {"Work", "undefined"}
EventIds == {"e1", "h1"}

\* getEvent: `if (!result) return null`
NoEvent == [id |-> "null"]

\* What the AppleScript can answer to a call: the events of the range, the
\* event of the id or nothing, the names of the calendars or nothing.
UpstreamAnswers(call) ==
  CASE call.op = "listEvents" ->
         IF call.calendarName = "Work"
           THEN {<<>>, <<workOne, workTwo>>, <<workOne, workOneAgain>>}
         ELSE {<<workOne, homeOne>>}
    [] call.op = "getEvent" ->
         IF call.eventId = "e1" THEN {workOne, NoEvent} ELSE {homeOne, NoEvent}
    [] call.op = "getCalendars" -> {<<>>, <<"Home", "Work">>}
    [] OTHER -> {}

NoRequest ==
  [op |-> "none", pc |-> "idle", startDate |-> "undefined",
   endDate |-> "undefined", calendarName |-> "undefined",
   eventId |-> "undefined", cacheFailed |-> FALSE, upstreamFailed |-> FALSE,
   fetched |-> Null, result |-> Null]

InitCalendarClient ==
  /\ NoLimiter
  /\ NoHybridClient
  /\ NewHost
  /\ NoHelperCall
  /\ clock = 0
  /\ mailDb = "none"
  /\ lastPut = "none"
  /\ cacheOp = "none"
  /\ puts = "none"
  /\ calDb = EmptyCalendarDb
  /\ tx = "none"
  /\ observed = "none"
  /\ outcome = "none"
  /\ batches = "none"
  /\ request = NoRequest
  /\ calls = 0

\* The state that a CalendarClient call leaves alone.
outsideClient ==
  <<hostVars, helperVars, mailDb, lastPut, cacheOp, puts, tx, observed,
    outcome, batches, limiterVars, hybridVars>>

\* Time passes between two calls.
CalendarTick(t) ==
  /\ request.pc \in {"idle", "returned", "threw"}
  /\ t > clock
  /\ clock' = t
  /\ UNCHANGED <<calDb, request, calls>>
  /\ UNCHANGED outsideClient

\* The call is made and reaches its cache read.
Call(op, startDate, endDate, calendarName, eventId) ==
  /\ request.pc \in {"idle", "returned", "threw"}
  /\ calls < MaxCalls
  /\ calls' = calls + 1
  /\ request' = [NoRequest EXCEPT !.op = op, !.pc = "read",
                                  !.startDate = startDate,
                                  !.endDate = endDate,
                                  !.calendarName = calendarName,
                                  !.eventId = eventId]
  /\ UNCHANGED <<clock, calDb>>
  /\ UNCHANGED outsideClient

ListEvents(startDate, endDate, calendarName) ==
  Call("listEvents", startDate, endDate, calendarName, "undefined")

GetEvent(eventId) ==
  Call("getEvent", "undefined", "undefined", "undefined", eventId)

GetCalendars ==
  Call("getCalendars", "undefined", "undefined", "undefined", "undefined")

\* cachedCalendars.map(c => c.name)
names(cachedCalendars) ==
  [i \in DOMAIN cachedCalendars |-> cachedCalendars[i].name]

\* `await this.cache.getCached...(...)` returns: a hit is returned to the
\* caller, a miss goes on to the AppleScript.
CacheRead ==
  /\ request.pc = "read"
  /\ LET read ==
           CASE request.op = "listEvents" ->
                  getCachedEvents(calDb, request.calendarName,
                                  request.startDate, request.endDate, clock)
             [] request.op = "getEvent" ->
                  [db |-> calDb,
                   result |-> getCachedEvent(calDb, request.eventId, clock)]
             [] request.op = "getCalendars" ->
                  [db |-> calDb, result |-> getCachedCalendars(calDb, clock)]
     IN /\ calDb' = read.db
        /\ request' =
             IF read.result.null THEN [request EXCEPT !.pc = "fetch"]
             ELSE [request EXCEPT
                     !.pc = "returned",
                     !.result =
                       IF request.op = "getCalendars"
                         THEN NonNull(names(read.result.value))
                       ELSE read.result]
  /\ UNCHANGED <<clock, calls>>
  /\ UNCHANGED outsideClient

\* `await this.cache.getCached...(...)` raises a storage error: no try
\* encloses it, so the call is rejected with that error.
CacheReadFails ==
  /\ request.pc = "read"
  /\ request' = [request EXCEPT !.pc = "threw", !.cacheFailed = TRUE]
  /\ UNCHANGED <<clock, calDb, calls>>
  /\ UNCHANGED outsideClient

\* The AppleScript answers.  getEvent returns the answer; listEvents and
\* getCalendars return an empty answer and go on to cache any other.
Upstream(answer) ==
  /\ request.pc = "fetch"
  /\ request' =
       [request EXCEPT
          !.fetched = NonNull(answer),
          !.pc = IF request.op = "getEvent" \/ answer = <<>>
                   THEN "returned" ELSE "write",
          !.result = IF request.op = "getEvent" \/ answer = <<>>
                       THEN NonNull(answer) ELSE Null]
  /\ UNCHANGED <<clock, calDb, calls>>
  /\ UNCHANGED outsideClient

\* runAppleScript raises: the call is rejected.
UpstreamFails ==
  /\ request.pc = "fetch"
  /\ request' = [request EXCEPT !.pc = "threw", !.upstreamFailed = TRUE]
  /\ UNCHANGED <<clock, calDb, calls>>
  /\ UNCHANGED outsideClient

\* `await this.cache.cacheEvents(events, calendarName)` or
\* `await this.cache.cacheCalendars(calendars)`: when it returns, the call
\* returns what was fetched; when its transaction raises, no try encloses
\* it and the call is rejected.
CacheWrite ==
  /\ request.pc = "write"
  /\ LET written ==
           IF request.op = "listEvents"
             THEN cacheEvents(calDb, request.fetched.value,
                              request.calendarName, clock)
           ELSE cacheCalendars(calDb, request.fetched.value, clock)
     IN /\ calDb' = written.db
        /\ request' =
             IF written.threw
               THEN [request EXCEPT !.pc = "threw", !.cacheFailed = TRUE]
             ELSE [request EXCEPT !.pc = "returned",
                                  !.result = request.fetched]
  /\ UNCHANGED <<clock, calls>>
  /\ UNCHANGED outsideClient

\* The cache write raises a storage error: the call is rejected.
CacheWriteFails ==
  /\ request.pc = "write"
  /\ request' = [request EXCEPT !.pc = "threw", !.cacheFailed = TRUE]
  /\ UNCHANGED <<clock, calDb, calls>>
  /\ UNCHANGED outsideClient

NextCalendarClient ==
  \/ \E t \in CalendarInstants : CalendarTick(t)
  \/ \E range \in DateRanges, calendarName \in CalendarNames :
       ListEvents(range[1], range[2], calendarName)
  \/ \E eventId \in EventIds : GetEvent(eventId)
  \/ GetCalendars
  \/ CacheRead
  \/ CacheReadFails
  \/ \E answer \in UpstreamAnswers(request) : Upstream(answer)
  \/ UpstreamFails
  \/ CacheWrite
  \/ CacheWriteFails

SpecCalendarClient == InitCalendarClient /\ [][NextCalendarClient]_vars

\* A calendar that does not change, on a Mac whose region writes dates with
\* the year first (lt_LT), and a storage that does not fail.
workEarly ==
  CalendarEvent("w1", "Work", "2024 m. sausio 2 d., antradienis 09:00:00")
workLate ==
  CalendarEvent("w2", "Work", "2024 m. sausio 12 d., penktadienis 09:00:00")
UpstreamCalendar == <<workEarly, workLate, homeOne>>

\* The instant a start date text or the bound of a range denotes, in
\* milliseconds since 2024-01-01T00:00 local time; an end bound stands for
\* 23:59:59 of its day.
InstantOf(text) ==
  CASE text = "2023-12-25" -> -(7 * Day)
    [] text = "2024-01-01" -> 0
    [] text = "2024-01-05" -> 4 * Day
    [] text = "2024-01-20" -> 19 * Day
    [] text = "2024 m. sausio 2 d., antradienis 09:00:00" -> Day + 9 * Hour
    [] text = "2024 m. sausio 12 d., penktadienis 09:00:00" ->
         11 * Day + 9 * Hour
    [] text = "Monday, January 1, 2024 at 10:00:00 AM" -> 10 * Hour
    [] text = "Tue, Jan 2, 2024, 09:00 AM PST" -> Day + 9 * Hour
    [] text = "Wed, Jan 10, 2024, 09:00 AM PST" -> 9 * Day + 9 * Hour

\* events of targetCalendar (of every calendar) whose start date >=
\* startDate and start date <= endDate
eventsWhose(events, startDate, endDate, calendarName) ==
  SelectSeq(events,
            LAMBDA evt :
              /\ calendarName # "undefined" => evt.calendarName = calendarName
              /\ InstantOf(evt.startDate) >= InstantOf(startDate)
              /\ InstantOf(evt.startDate)
                   <= InstantOf(endDate) + 23 * Hour + 59 * Minute + 59000)

NextListEvents ==
  \/ \E t \in CalendarInstants : CalendarTick(t)
  \/ \E range \in DateRanges, calendarName \in CalendarNames :
       ListEvents(range[1], range[2], calendarName)
  \/ CacheRead
  \/ /\ request.op = "listEvents"
     /\ Upstream(eventsWhose(UpstreamCalendar, request.startDate,
                             request.endDate, request.calendarName))
  \/ CacheWrite

SpecListEvents == InitCalendarClient /\ [][NextListEvents]_vars

---------------------------------------------------------------------------
(* Properties of MailCache.                                                *)

GetNames ==
  {"getCachedFolders", "getCachedMessage", "getCachedMessageList",
   "getCachedSearchResults"}

\* The last call was a get and returned a value.
IsHit == cacheOp.name \in GetNames /\ ~cacheOp.result.null

\* The last call was a get and returned null.
IsMiss == cacheOp.name \in GetNames /\ cacheOp.result.null

\* The TTL of the entity class a get reads.
TtlOfClass(name) ==
  CASE name = "getCachedFolders" -> FOLDER_TTL
    [] name = "getCachedMessageList" -> MESSAGE_LIST_TTL
    [] name = "getCachedMessage" -> MESSAGE_CONTENT_TTL
    [] name = "getCachedSearchResults" -> SEARCH_TTL

\* The rows of the database from which the result of a get was read.
RowsRead(op) ==
  CASE op.name = "getCachedFolders" ->
         {mailDb.folders[<<f.name, f.accountName>>] : f \in op.result.value}
    [] op.name = "getCachedMessage" -> {mailDb.messages[op.id]}
    [] op.name = "getCachedMessageList" -> {mailDb.message_lists[op.cacheKey]}
    [] op.name = "getCachedSearchResults" ->
         {mailDb.search_cache[<<op.query, op.searchIn>>]}

\* C16: no get returns a row whose age (now - cachedAt) exceeds the TTL of
\* its entity class: 1 hour for folders, 5 minutes for message lists,
\* 24 hours for messages, 2 minutes for search results, the class being
\* that of the table read.
C16_NoStaleRow ==
  IsHit =>
    \A row \in RowsRead(cacheOp) :
      cacheOp.at - row.cached_at <= TtlOfClass(cacheOp.name)

\* getCachedFolders returns a folder cached earlier while it withholds a
\* folder whose age has reached the TTL.
C16_Witness ==
  /\ IsHit
  /\ cacheOp.name = "getCachedFolders"
  /\ \E row \in RowsRead(cacheOp) : cacheOp.at - row.cached_at > 0
  /\ \E k \in DOMAIN mailDb.folders :
       cacheOp.at - mailDb.folders[k].cached_at >= FOLDER_TTL


\* An optional field that was absent when written reads back as null.
Absent(value) == IF value = "undefined" THEN "null" ELSE value

AsRead(message) ==
  [message EXCEPT !.senderName = Absent(@), !.content = Absent(@),
                  !.snippet = Absent(@)]

\* The elements of a sequence.
Elements(seq) == {seq[i] : i \in DOMAIN seq}

\* The last call is a get made right after the last put, with no time
\* elapsed and no other write between them.
GetRightAfterPut(put, get) ==
  /\ lastPut.name = put
  /\ cacheOp.name = get
  /\ cacheOp.at = lastPut.at

\* C17: a put followed immediately by a get of the same key is a hit that
\* returns the value just put, for message lists, search results, messages
\* (single and batch) and folders.
C17_PutThenGet ==
  /\ GetRightAfterPut("cacheMessageList", "getCachedMessageList")
       /\ cacheOp.cacheKey = lastPut.cacheKey
     => /\ IsHit
        /\ cacheOp.result.value =
             [messageIds |-> lastPut.messageIds,
              totalCount |-> lastPut.totalCount]
  /\ GetRightAfterPut("cacheSearchResults", "getCachedSearchResults")
       /\ cacheOp.query = lastPut.query
       /\ cacheOp.searchIn = lastPut.searchIn
     => /\ IsHit
        /\ cacheOp.result.value = lastPut.messageIds
  /\ GetRightAfterPut("cacheMessage", "getCachedMessage")
       /\ cacheOp.id = lastPut.message.id
       /\ cacheOp.includeContent
     => /\ IsHit
        /\ cacheOp.result.value = AsRead(lastPut.message)
  /\ GetRightAfterPut("cacheMessages", "getCachedMessage")
       /\ cacheOp.includeContent
     => \A message \in Elements(lastPut.messages) :
          cacheOp.id = message.id
            => IsHit /\ cacheOp.result.value = AsRead(message)
  /\ GetRightAfterPut("cacheFolders", "getCachedFolders")
     => /\ IsHit
        /\ cacheOp.result.value = Elements(lastPut.folders)


Tables == {"folders", "messages", "message_lists", "search_cache"}

\* The retention horizon of a cleanup run at instant t.
Horizon(t) == t - 24 * 60 * 60 * 1000

\* C20: after cleanup() run at time t, no row with cachedAt older than
\* t - 24 hours remains in any of the four tables, and every row with
\* cachedAt newer than t - 24 hours is still present with unchanged content.
C20_CleanupHorizon ==
  cacheOp.name = "cleanup" =>
    \A table \in Tables :
      /\ \A k \in DOMAIN mailDb[table] :
           ~(mailDb[table][k].cached_at < Horizon(cacheOp.at))
      /\ \A k \in DOMAIN cacheOp.before[table] :
           cacheOp.before[table][k].cached_at > Horizon(cacheOp.at)
             => /\ k \in DOMAIN mailDb[table]
                /\ mailDb[table][k] = cacheOp.before[table][k]

\* A cleanup that deleted a row older than the horizon and kept a newer one.
C20_Witness ==
  /\ cacheOp.name = "cleanup"
  /\ \E table \in Tables : \E k \in DOMAIN cacheOp.before[table] :
       /\ cacheOp.before[table][k].cached_at < Horizon(cacheOp.at)
       /\ k \notin DOMAIN mailDb[table]
  /\ \E table \in Tables : \E k \in DOMAIN mailDb[table] :
       mailDb[table][k].cached_at > Horizon(cacheOp.at)


---------------------------------------------------------------------------
(* Properties of batch writes.                                             *)

\* The database a reader saw of the cache that transaction t is on.
Seen(t) ==
  IF t.name \in {"cacheFolders", "cacheMessages"} THEN observed.mail
  ELSE observed.calendar

\* The arguments of the statements of a batch.
Arguments(batch) == [i \in DOMAIN batch |-> batch[i].arg]

\* C18: batch writes are atomic, for MailCache.cacheMessages and cacheFolders
\* and for CalendarCache.cacheCalendars and cacheEvents: when a row of the
\* batch fails, nothing of the batch is stored (for cacheEvents the old
\* events of the calendar are still there), a reader interleaved with the
\* batch sees the database without the batch or with all of it, and a
\* batch that ends well stores all its rows.
C18_BatchAtomic ==
  /\ outcome.ended = "rolledBack"
       => databaseOf(outcome.name) = outcome.before
  /\ observed.during # NoTransaction
       => LET t == observed.during
              whole == runStatements(t.before, t.batch, t.now)
          IN \/ Seen(t) = t.before
             \/ ~whole.threw /\ Seen(t) = whole.db
  /\ outcome.ended = "committed"
       => /\ databaseOf(outcome.name) =
               runStatements(outcome.before, outcome.batch, outcome.now).db
          /\ outcome.name = "cacheFolders"
               => mailDb = cacheFolders(outcome.before,
                                        Arguments(outcome.batch), outcome.now)
          /\ outcome.name = "cacheMessages"
               => mailDb = cacheMessages(outcome.before,
                                         Arguments(outcome.batch), outcome.now)

\* cacheEvents was rolled back on its second event after a reader had read
\* the events table while the working copy had lost the old events of the
\* calendar and held the first event of the batch.
C18_Witness ==
  /\ outcome.ended = "rolledBack"
  /\ outcome.name = "cacheEvents"
  /\ observed.during # NoTransaction
  /\ observed.during.now = outcome.now
  /\ \E id \in DOMAIN observed.during.before.events :
       id \notin DOMAIN observed.during.working.events
  /\ \E id \in DOMAIN observed.during.working.events :
       observed.during.working.events[id].cached_at = outcome.now


---------------------------------------------------------------------------
(* Properties of CalendarClient.                                           *)

\* C19: a cache failure never blocks the upstream fetch: when the cache
\* read or the cache write of listEvents, getEvent or getCalendars raises,
\* the call still returns the result of the upstream fetch.
C19_CacheFailureIsMiss ==
  /\ request.pc \in {"returned", "threw"}
  /\ request.cacheFailed
  /\ ~request.upstreamFailed
  => /\ request.pc = "returned"
     /\ ~request.fetched.null
     /\ request.result = request.fetched


\* 15 minutes for a row whose event starts within 7 days of the instant it
\* was cached at, 1 hour otherwise.
TtlOfRow(row) ==
  LET diff == InstantOf(row.start_date) - row.cached_at
  IN IF diff <= 7 * Day /\ -diff <= 7 * Day THEN 15 * Minute ELSE Hour

\* The ids of the events a read returned.
IdsOf(result) ==
  IF result.null THEN {} ELSE {result.value[i].id : i \in DOMAIN result.value}

\* The ids that some read of the cache returns at an instant.
ReadableIds(db, now) ==
  {id \in DOMAIN db.events : ~getCachedEvent(db, id, now).null}
    \cup UNION {IdsOf(getCachedEvents(db, calendarName, "2024-01-01",
                                      "2024-12-31", now).result) :
                  calendarName \in CalendarNames \cup {"Home"}}
    \cup UNION {IdsOf(searchCachedEvents(db, "stand", range[1], range[2],
                                         now)) :
                  range \in {<<"undefined", "undefined">>,
                             <<"2024-01-01", "2024-12-31">>}}

\* C24: an event that cacheEvents stored at t is returned by no read from
\* t + TTL on, TTL being 15 minutes when the event starts within 7 days of
\* t and 1 hour otherwise.
C24_EventTtl ==
  \A id \in DOMAIN calDb.events :
    clock >= calDb.events[id].cached_at + TtlOfRow(calDb.events[id])
      => id \notin ReadableIds(calDb, clock)

\* The same for the events whose start date text new Date() can parse.
EventTtlOfParsedDates ==
  \A id \in DOMAIN calDb.events :
    LET row == calDb.events[id]
    IN ~DateGetTime(row.start_date).isNaN =>
         (id \in ReadableIds(calDb, clock)
            <=> clock < row.cached_at + TtlOfRow(row))

\* The last call was a listEvents that the cache answered.
ServedFromCache ==
  /\ request.op = "listEvents"
  /\ request.pc = "returned"
  /\ request.fetched.null

\* C22: a listEvents answered by the cache returns the events that the
\* unchanged calendar holds for the range and the calendar asked for,
\* whatever listEvents calls were made before.
C22_CachedAnswerIsAnswerToQuery ==
  ServedFromCache =>
    IdsOf(request.result)
      = {evt.id : evt \in Elements(eventsWhose(UpstreamCalendar,
                                               request.startDate,
                                               request.endDate,
                                               request.calendarName))}

---------------------------------------------------------------------------
(* More properties of deduplicate.                                         *)

\* The positions of the last scan.
Scanned == 1..Len(sortedMessages)

\* What the message scanned at position i shares with the one at j.
SharesGlobalId(i, j) ==
  /\ sortedMessages[i].globalMessageId # 0
  /\ sortedMessages[i].globalMessageId = sortedMessages[j].globalMessageId
SharesHeader(i, j) ==
  /\ sortedMessages[i].messageIdHeader # ""
  /\ sortedMessages[i].messageIdHeader = sortedMessages[j].messageIdHeader
SharesHash(i, j) ==
  contentHashOf[sortedMessages[i]] = contentHashOf[sortedMessages[j]]
SharesFuzzyKey(i, j) ==
  fuzzyKeyOf[sortedMessages[i]] = fuzzyKeyOf[sortedMessages[j]]

\* C27: every message a scan dropped has a retained message, scanned
\* before it and dated no earlier, that shares its globalMessageId, its
\* messageIdHeader, its content hash, or its fuzzy key while passing the
\* pairwise fuzzy check; and every returned message is one of the input.
C27_DroppedHasRetainedWitness ==
  Called =>
    /\ \A i \in Dropped :
         \E j \in Retained :
           /\ j < i
           /\ sortedMessages[j].date >= sortedMessages[i].date
           /\ sortedMessages[j] \in Elements(uniqueMessages)
           /\ \/ SharesGlobalId(i, j)
              \/ SharesHeader(i, j)
              \/ SharesHash(i, j)
              \/ /\ SharesFuzzyKey(i, j)
                 /\ fuzzyMatchOf[sortedMessages[i], sortedMessages[j]]
    /\ Elements(uniqueMessages) \subseteq Elements(lastInput)

\* A scan of three messages that dropped one under a shared header and kept
\* an older one whose global id only the dropped message carries.
C27_Witness ==
  /\ lastCall = "deduplicate"
  /\ Len(sortedMessages) = 3
  /\ verdicts = <<"none", "messageIdHeader", "none">>
  /\ SharesGlobalId(3, 2)

\* The UTC hour a message is dated in.
HourBucket(message) == message.date \div Hour

\* The message the fuzzy index holds under the key of the message scanned at
\* position i when its turn comes: the position of the last retained message
\* of that key before i, 0 when the index has no such key.
IndexedFor(i) ==
  LET same == {j \in Retained : j < i /\ SharesFuzzyKey(i, j)}
  IN IF same = {} THEN 0 ELSE CHOOSE j \in same : \A k \in same : k <= j

IdLess(message) ==
  message.globalMessageId = 0 /\ message.messageIdHeader = ""

\* C28: the fuzzy strategy compares a message only with a retained message
\* of the identical fuzzy key, hence of the same UTC hour: a message is
\* attributed to fuzzyMatch only then, a batch of two messages without
\* identifiers, of one sender and one subject but of different UTC hours,
\* is retained whole, and no compared pair is more than 24 hours apart.
C28_FuzzyWithinHourBucket ==
  Called =>
    /\ \A i \in Scanned :
         verdicts[i] = "fuzzyMatch" =>
           /\ IndexedFor(i) # 0
           /\ HourBucket(sortedMessages[IndexedFor(i)])
                = HourBucket(sortedMessages[i])
    /\ ( /\ Len(sortedMessages) = 2
         /\ IdLess(sortedMessages[1])
         /\ IdLess(sortedMessages[2])
         /\ sortedMessages[1].from = sortedMessages[2].from
         /\ sortedMessages[1].subject = sortedMessages[2].subject
         /\ HourBucket(sortedMessages[1]) # HourBucket(sortedMessages[2]) )
        => Retained = {1, 2}
    /\ \A i \in Scanned :
         IndexedFor(i) # 0 =>
           sortedMessages[IndexedFor(i)].date - sortedMessages[i].date
             < Hour

\* Two messages without identifiers, of one sender and one subject,
\* 45 minutes apart in different UTC hours, were both retained.
C28_Witness ==
  /\ lastCall = "deduplicate"
  /\ sortedMessages = <<b5, b1>>
  /\ uniqueMessages = <<b5, b1>>
  /\ b5.date - b1.date < 24 * Hour


---------------------------------------------------------------------------
(* More properties of MailCache.                                           *)

\* The put of a record made on a database.
Apply(put, db) ==
  CASE put.name = "cacheFolders" -> cacheFolders(db, put.folders, put.at)
    [] put.name = "cacheMessage" -> cacheMessage(db, put.message, put.at)
    [] put.name = "cacheMessages" -> cacheMessages(db, put.messages, put.at)
    [] put.name = "cacheMessageList" ->
         cacheMessageList(db, put.cacheKey, put.messageIds, put.totalCount,
                          put.at)
    [] put.name = "cacheSearchResults" ->
         cacheSearchResults(db, put.query, put.searchIn, put.messageIds,
                            put.at)

\* The table a put writes and the keys of the rows it writes.
TableOf(put) ==
  CASE put.name = "cacheFolders" -> "folders"
    [] put.name \in {"cacheMessage", "cacheMessages"} -> "messages"
    [] put.name = "cacheMessageList" -> "message_lists"
    [] put.name = "cacheSearchResults" -> "search_cache"

KeysOf(put) ==
  CASE put.name = "cacheFolders" ->
         {<<f.name, f.accountName>> : f \in Elements(put.folders)}
    [] put.name = "cacheMessage" -> {put.message.id}
    [] put.name = "cacheMessages" ->
         {message.id : message \in Elements(put.messages)}
    [] put.name = "cacheMessageList" -> {put.cacheKey}
    [] put.name = "cacheSearchResults" -> {<<put.query, put.searchIn>>}

\* The last call is a get made after the last put, less than ttl later.
GetWithin(put, get, ttl) ==
  /\ lastPut.name = put
  /\ cacheOp.name = get
  /\ cacheOp.at - lastPut.at < ttl

\* C21: a put replaces the row of its key whatever the row was and stamps
\* it with the current time; after any sequence of puts to one key a get
\* within the TTL returns the value of the last put; and a second put of
\* the same value with no elapsed time leaves the state of the first.
C21_PutReplaces ==
  lastPut.name # "none" =>
    /\ \A k \in KeysOf(lastPut) :
         /\ k \in DOMAIN mailDb[TableOf(lastPut)]
         /\ mailDb[TableOf(lastPut)][k].cached_at = lastPut.at
    /\ Apply(lastPut.call, mailDb) = mailDb
    /\ GetWithin("cacheMessageList", "getCachedMessageList", MESSAGE_LIST_TTL)
         /\ cacheOp.cacheKey = lastPut.cacheKey
       => /\ IsHit
          /\ cacheOp.result.value =
               [messageIds |-> lastPut.messageIds,
                totalCount |-> lastPut.totalCount]
    /\ GetWithin("cacheSearchResults", "getCachedSearchResults", SEARCH_TTL)
         /\ cacheOp.query = lastPut.query
         /\ cacheOp.searchIn = lastPut.searchIn
       => /\ IsHit
          /\ cacheOp.result.value = lastPut.messageIds
    /\ GetWithin("cacheMessage", "getCachedMessage", MESSAGE_CONTENT_TTL)
         /\ cacheOp.id = lastPut.message.id
         /\ cacheOp.includeContent
       => /\ IsHit
          /\ cacheOp.result.value = AsRead(lastPut.message)
    /\ GetWithin("cacheMessages", "getCachedMessage", MESSAGE_CONTENT_TTL)
         /\ cacheOp.includeContent
       => \A message \in Elements(lastPut.messages) :
            cacheOp.id = message.id
              => IsHit /\ cacheOp.result.value = AsRead(message)
    /\ GetWithin("cacheFolders", "getCachedFolders", FOLDER_TTL)
       => \A folder \in Elements(lastPut.folders) :
            IsHit /\ folder \in cacheOp.result.value

\* A message list was put on the row of an earlier put to the same key with
\* another value, and a later get within the TTL returned it.
C21_Witness ==
  /\ GetWithin("cacheMessageList", "getCachedMessageList", MESSAGE_LIST_TTL)
  /\ cacheOp.at > lastPut.at
  /\ lastPut.cacheKey \in DOMAIN lastPut.before.message_lists
  /\ lastPut.before.message_lists[lastPut.cacheKey].message_ids
       # JSONstringify(lastPut.messageIds)
  /\ lastPut.before.message_lists[lastPut.cacheKey].cached_at < lastPut.at
  /\ IsHit


\* C23: rows are removed only by cleanup(): a get leaves the database as
\* it was, so an expired row stays stored though it is reported as a miss,
\* and a put deletes no row and changes no row of another key.
C23_OnlyCleanupRemoves ==
  /\ cacheOp.name \in GetNames => mailDb = cacheOp.before
  /\ lastPut.name # "none" =>
       \A table \in Tables :
         \A k \in DOMAIN lastPut.before[table] :
           /\ k \in DOMAIN mailDb[table]
           /\ ~(table = TableOf(lastPut) /\ k \in KeysOf(lastPut))
                => mailDb[table][k] = lastPut.before[table][k]

\* getCachedSearchResults reported a miss for a key whose row, older than
\* the TTL, is still stored after the call, and a put to another table has
\* been made since the row was written.
C23_Witness ==
  /\ IsMiss
  /\ cacheOp.name = "getCachedSearchResults"
  /\ <<cacheOp.query, cacheOp.searchIn>> \in DOMAIN mailDb.search_cache
  /\ cacheOp.at
       - mailDb.search_cache[<<cacheOp.query, cacheOp.searchIn>>].cached_at
       > SEARCH_TTL
  /\ lastPut.name = "cacheFolders"
  /\ <<cacheOp.query, cacheOp.searchIn>> \in DOMAIN lastPut.before.search_cache

\* Every get of the host made on a database at an instant.
AllGets(db, now) ==
  [folders |-> getCachedFolders(db, now),
   messages |-> [a \in MessageIds \X BOOLEAN |->
                   getCachedMessage(db, a[1], a[2], now)],
   lists |-> [cacheKey \in CacheKeys |->
                getCachedMessageList(db, cacheKey, now)],
   searches |-> [q \in Queries |->
                   getCachedSearchResults(db, q[1], q[2], now)]]

\* C30: cleanup() is invisible to readers: every get returns right after
\* cleanup() what it would have returned right before it.
C30_CleanupInvisible ==
  cacheOp.name = "cleanup" =>
    AllGets(mailDb, cacheOp.at) = AllGets(cacheOp.before, cacheOp.at)

\* A cleanup that deleted a row while a message cached 23 hours earlier was
\* a hit before and after it.
C30_Witness ==
  /\ cacheOp.name = "cleanup"
  /\ mailDb # cacheOp.before
  /\ \E id \in MessageIds :
       /\ ~getCachedMessage(mailDb, id, TRUE, cacheOp.at).null
       /\ cacheOp.at - mailDb.messages[id].cached_at > FOLDER_TTL

---------------------------------------------------------------------------
(* SecurityManager.checkRateLimit.                                         *)

\* this.requestCounts.set(identifier, record)
MapSet(map, key, value) ==
  [k \in DOMAIN map \cup {key} |-> IF k = key THEN value ELSE map[k]]

\* Variant: the limit is tested with > instead of >=.
checkRateLimitOffByOne(counts, identifier, maxRequests, windowMs, now) ==
  IF \/ identifier \notin DOMAIN counts
     \/ now > counts[identifier].resetTime
    THEN [returned |-> "true", threw |-> FALSE,
          requestCounts |->
            MapSet(counts, identifier,
                   [count |-> 1, resetTime |-> now + windowMs])]
  ELSE IF counts[identifier].count > maxRequests
    THEN [returned |-> "false", threw |-> FALSE, requestCounts |-> counts]
  ELSE [returned |-> "true", threw |-> FALSE,
        requestCounts |-> [counts EXCEPT ![identifier].count = @ + 1]]

\* The reminders SecurityManager: static checkRateLimit(identifier,
\* maxRequests, windowMs): boolean, at Date.now() = now.
checkRateLimit(counts, identifier, maxRequests, windowMs, now) ==
  IF \/ identifier \notin DOMAIN counts
     \/ now > counts[identifier].resetTime
    THEN [returned |-> "true", threw |-> FALSE,
          requestCounts |->
            MapSet(counts, identifier,
                   [count |-> 1, resetTime |-> now + windowMs])]
  ELSE IF counts[identifier].count >= maxRequests
    THEN [returned |-> "false", threw |-> FALSE, requestCounts |-> counts]
  ELSE [returned |-> "true", threw |-> FALSE,
        requestCounts |-> [counts EXCEPT ![identifier].count = @ + 1]]

\* The mail SecurityManager: checkRateLimit(operation, maxRequests,
\* windowMs): void, which throws Error("Rate limit exceeded ...").
checkRateLimitMail(counts, operation, maxRequests, windowMs, now) ==
  IF \/ operation \notin DOMAIN counts
     \/ now > counts[operation].resetTime
    THEN [returned |-> "undefined", threw |-> FALSE,
          requestCounts |->
            MapSet(counts, operation,
                   [count |-> 1, resetTime |-> now + windowMs])]
  ELSE IF counts[operation].count >= maxRequests
    THEN [returned |-> "none", threw |-> TRUE, requestCounts |-> counts]
  ELSE [returned |-> "undefined", threw |-> FALSE,
        requestCounts |-> [counts EXCEPT ![operation].count = @ + 1]]

MaxChecks == 4
MaxClock == 4

Managers == {"reminders", "mail"}
Identifiers == {"list_messages", "send_message"}
Limits == {1, 2}
Windows == {2}

InitLimiter ==
  /\ NewHost
  /\ NoHelperCall
  /\ NoCalendar
  /\ NoHybridClient
  /\ mailDb = "none"
  /\ lastPut = "none"
  /\ cacheOp = "none"
  /\ puts = "none"
  /\ clock = 0
  /\ manager \in Managers
  /\ requestCounts = <<>>
  /\ checks = <<>>

outsideLimiter ==
  <<hostVars, helperVars, calendarVars, hybridVars, mailDb, lastPut,
    cacheOp, puts>>

\* A millisecond passes.
LimiterTick ==
  /\ clock < MaxClock
  /\ clock' = clock + 1
  /\ UNCHANGED <<limiterVars, outsideLimiter>>

\* One call of checkRateLimit on the manager in use.
CheckRateLimit(identifier, maxRequests, windowMs) ==
  LET r == IF manager = "reminders"
             THEN checkRateLimit(requestCounts, identifier, maxRequests,
                                 windowMs, clock)
             ELSE checkRateLimitMail(requestCounts, identifier, maxRequests,
                                     windowMs, clock)
  IN /\ Len(checks) < MaxChecks
     /\ requestCounts' = r.requestCounts
     /\ checks' = Append(checks,
                         [identifier |-> identifier,
                          maxRequests |-> maxRequests,
                          windowMs |-> windowMs,
                          now |-> clock,
                          returned |-> r.returned,
                          threw |-> r.threw,
                          before |-> requestCounts,
                          after |-> r.requestCounts])
     /\ UNCHANGED <<manager, clock, outsideLimiter>>

NextLimiter ==
  \/ LimiterTick
  \/ \E identifier \in Identifiers, maxRequests \in Limits,
        windowMs \in Windows :
       CheckRateLimit(identifier, maxRequests, windowMs)

SpecLimiter == InitLimiter /\ [][NextLimiter]_vars

\* Whether a recorded call was allowed: true was returned (reminders), or
\* the call returned without raising (mail).
Allowed(check) ==
  IF manager = "reminders" THEN check.returned = "true" ELSE ~check.threw

Rejected(check) ==
  IF manager = "reminders" THEN check.returned = "false" ELSE check.threw

\* The window of an identifier after the first k recorded calls: it opens
\* with the first allowed call made when no window is open or after the
\* resetTime of the open one, lasts until that call's now + windowMs, and
\* counts the calls allowed in it.
RECURSIVE WindowOf(_, _)
WindowOf(identifier, k) ==
  IF k = 0 THEN [open |-> FALSE, resetTime |-> 0, allowed |-> 0]
  ELSE LET w == WindowOf(identifier, k - 1)
           check == checks[k]
       IN IF check.identifier # identifier \/ ~Allowed(check) THEN w
          ELSE IF ~w.open \/ check.now > w.resetTime
            THEN [open |-> TRUE, resetTime |-> check.now + check.windowMs,
                  allowed |-> 1]
          ELSE [w EXCEPT !.allowed = @ + 1]

\* C25: within the window of its identifier a call is allowed only while
\* fewer than maxRequests calls have been allowed in that window, and is
\* otherwise rejected (false is returned in reminders, an error is raised in
\* mail) leaving the counter as it was; the first call of an identifier,
\* and the first one after resetTime, is allowed and opens a window with
\* count 1; no call touches the record of another identifier.
C25_RateLimit ==
  \A k \in 1..Len(checks) :
    LET check == checks[k]
        w == WindowOf(check.identifier, k - 1)
        inWindow == w.open /\ check.now <= w.resetTime
    IN /\ Allowed(check) # Rejected(check)
       /\ Allowed(check) =>
            check.after[check.identifier].count <= check.maxRequests
       /\ inWindow =>
            /\ Allowed(check) <=> w.allowed < check.maxRequests
            /\ Rejected(check) => check.after = check.before
            /\ Allowed(check) =>
                 check.after[check.identifier] =
                   [count |-> w.allowed + 1, resetTime |-> w.resetTime]
       /\ ~inWindow =>
            /\ Allowed(check)
            /\ check.after[check.identifier] =
                 [count |-> 1, resetTime |-> check.now + check.windowMs]
       /\ \A other \in Identifiers \ {check.identifier} :
            /\ other \in DOMAIN check.after <=> other \in DOMAIN check.before
            /\ other \in DOMAIN check.before =>
                 check.after[other] = check.before[other]

\* Two calls of one identifier were allowed, a third in the same window was
\* rejected at its resetTime, and a fourth after resetTime was allowed and
\* opened a window with count 1.
C25_Witness ==
  /\ Len(checks) = 4
  /\ \A k \in 1..4 : checks[k].identifier = "list_messages"
  /\ \A k \in 1..4 : checks[k].maxRequests = 2
  /\ Allowed(checks[1]) /\ Allowed(checks[2])
  /\ Rejected(checks[3])
  /\ checks[3].now = checks[1].now + checks[1].windowMs
  /\ Allowed(checks[4])
  /\ checks[4].now > checks[3].before["list_messages"].resetTime
  /\ requestCounts["list_messages"].count = 1


---------------------------------------------------------------------------
(* HybridEmailClient: getMessages and getStatistics.                       *)

\* A row of the Mac Mail database (MacMailMessage) and a message of the IMAP
\* client, each carrying what the conversions and the filters read.
MacMailMessage(m, isRead, isFlagged) ==
  [messageId |-> m.id, globalMessageId |-> m.globalMessageId,
   messageIdHeader |-> m.messageIdHeader, subject |-> m.subject,
   sender |-> m.from, dateReceived |-> m.date, accountName |-> m.account,
   isRead |-> isRead, isFlagged |-> isFlagged]

ImapMessage(m, isRead, isFlagged) ==
  [name |-> m.id, messageId |-> m.messageIdHeader, subject |-> m.subject,
   from |-> m.from, date |-> m.date, account |-> m.account,
   isRead |-> isRead, isFlagged |-> isFlagged]

NoSubject == <<40, 110, 111, 32, 115, 117, 98, 106, 101, 99, 116, 41>>
Unknown == <<85, 110, 107, 110, 111, 119, 110>>

\* MessageDeduplicator.fromMacMail: the fields deduplicate reads, and the
\* two flags the filters read.  The id keeps the row's name.
fromMacMail(message) ==
  [unified |-> Msg(message.messageId, message.globalMessageId,
                   message.messageIdHeader, message.subject, message.sender,
                   message.dateReceived, message.accountName, "mac-mail"),
   isRead |-> message.isRead,
   isFlagged |-> message.isFlagged]

\* MessageDeduplicator.fromIMAP: no globalMessageId, and defaults for an
\* empty subject or sender (every message of the model carries a date).
fromIMAP(message) ==
  [unified |-> Msg(message.name, 0, message.messageId,
                   IF message.subject = <<>> THEN NoSubject
                   ELSE message.subject,
                   IF message.from = <<>> THEN Unknown ELSE message.from,
                   message.date, message.account, "imap"),
   isRead |-> message.isRead,
   isFlagged |-> message.isFlagged]

\* String.prototype.includes
includes(s, p) ==
  \E i \in 0..(Len(s) - Len(p)) : SubSeq(s, i + 1, i + Len(p)) = p

\* Array.prototype.slice(0, end)
slice(array, end) ==
  IF end >= 0 THEN SubSeq(array, 1, Min(end, Len(array)))
  ELSE SubSeq(array, 1, Max(Len(array) + end, 0))

\* The loop over the rows of one source: convert, filter, push.
RECURSIVE pushFiltered(_, _, _, _)
pushFiltered(allMessages, rows, options, source) ==
  IF rows = <<>> THEN allMessages
  ELSE LET unifiedMessage == IF source = "mac-mail"
                               THEN fromMacMail(Head(rows))
                               ELSE fromIMAP(Head(rows))
           skip ==
             \/ options.unreadOnly /\ unifiedMessage.isRead
             \/ options.flaggedOnly /\ ~unifiedMessage.isFlagged
             \/ /\ source = "mac-mail"
                /\ Len(options.accounts) > 0
                /\ ~\E k \in 1..Len(options.accounts) :
                      includes(unifiedMessage.unified.account,
                               options.accounts[k])
       IN pushFiltered(IF skip THEN allMessages
                       ELSE Append(allMessages, unifiedMessage.unified),
                       Tail(rows), options, source)

\* Variant: the scanned list is taken instead of the unique one.
scannedMessagesOf(r) == r.sortedMessages

\* const { uniqueMessages } = this.deduplicator.deduplicate(allMessages)
uniqueMessagesOf(r) == r.uniqueMessages

MaxRows == 3
MaxImapRows == 1
MaxLimit == 3

MacMailRows ==
  {MacMailMessage(a2, TRUE, FALSE), MacMailMessage(b1, FALSE, FALSE),
   MacMailMessage(b2, FALSE, TRUE), MacMailMessage(b3, FALSE, FALSE)}
ImapRows == {ImapMessage(h1, FALSE, FALSE)}

MacMailAnswers ==
  {[raises |-> TRUE]}
    \cup {[raises |-> FALSE, rows |-> rows] :
            rows \in UNION {[1..n -> MacMailRows] : n \in 0..MaxRows}}
ImapAnswers ==
  {[configured |-> FALSE], [configured |-> TRUE, raises |-> TRUE]}
    \cup {[configured |-> TRUE, raises |-> FALSE, rows |-> rows] :
            rows \in UNION {[1..n -> ImapRows] : n \in 0..MaxImapRows}}

Filters ==
  {[unreadOnly |-> FALSE, flaggedOnly |-> FALSE, accounts |-> <<>>],
   [unreadOnly |-> TRUE, flaggedOnly |-> FALSE, accounts |-> <<>>],
   [unreadOnly |-> FALSE, flaggedOnly |-> TRUE, accounts |-> <<>>],
   [unreadOnly |-> FALSE, flaggedOnly |-> FALSE, accounts |-> <<ICloud>>]}
HybridQueryOptions ==
  {[limit |-> limit] @@ filter : limit \in 0..MaxLimit, filter \in Filters}

NoHybridCall(options) ==
  [name |-> "none", pc |-> "idle", options |-> options, allMessages |-> <<>>,
   firstRun |-> InitialStats(<<>>), messages |-> <<>>,
   deduplicationStats |-> InitialStats(<<>>)]

\* new HybridEmailClient(), the two sources as they answer, and the options
\* its caller passes.
InitHybridClient ==
  /\ NewHost
  /\ NoHelperCall
  /\ NoCache
  /\ NoCalendar
  /\ NoLimiter
  /\ macMailDb \in MacMailAnswers
  /\ imapSource \in ImapAnswers
  /\ \E options \in HybridQueryOptions : hybridCall = NoHybridCall(options)

outsideHybridClient ==
  <<messages, lastCall, lastInput, uniqueMessages, stats, duplicateGroups,
    dirty, sortedMessages, verdicts, helperVars, cacheVars, calendarVars,
    limiterVars>>

\* client.getMessages(options) or client.getStatistics(options) is called:
\* const allMessages = []
HybridCall(name) ==
  /\ hybridCall.pc = "idle"
  /\ hybridCall' = [hybridCall EXCEPT !.name = name, !.pc = "macMail"]
  /\ UNCHANGED <<this, macMailDb, imapSource, outsideHybridClient>>

\* Step 1: the Mac Mail rows are converted, filtered and pushed; when the
\* query raises, the catch leaves allMessages as it is.
QueryMacMail ==
  /\ hybridCall.pc = "macMail"
  /\ hybridCall' =
       [hybridCall EXCEPT
          !.pc = "imap",
          !.allMessages =
            IF macMailDb.raises THEN hybridCall.allMessages
            ELSE pushFiltered(hybridCall.allMessages, macMailDb.rows,
                              hybridCall.options, "mac-mail")]
  /\ UNCHANGED <<this, macMailDb, imapSource, outsideHybridClient>>

\* Step 2: the same for IMAP, when accounts are configured.
QueryImap ==
  /\ hybridCall.pc = "imap"
  /\ hybridCall' =
       [hybridCall EXCEPT
          !.pc = "deduplicate",
          !.allMessages =
            IF imapSource.configured /\ ~imapSource.raises
              THEN pushFiltered(hybridCall.allMessages, imapSource.rows,
                                hybridCall.options, "imap")
            ELSE hybridCall.allMessages]
  /\ UNCHANGED <<this, macMailDb, imapSource, outsideHybridClient>>

\* What getMessages returns from the run r of deduplicate: the unique list,
\* sorted newest first, cut at limit.  getStatistics goes on with it.
ReturnMessages(r) ==
  /\ hybridCall' =
       [hybridCall EXCEPT
          !.pc = IF hybridCall.name = "getMessages" THEN "returned"
                 ELSE "statistics",
          !.firstRun = r.stats,
          !.messages = slice(sortNewestFirst(uniqueMessagesOf(r)),
                             hybridCall.options.limit)]
  /\ this' = r.this
  /\ UNCHANGED <<macMailDb, imapSource, outsideHybridClient>>

\* Step 3: this.deduplicator.deduplicate(allMessages)
DeduplicateFetched ==
  /\ hybridCall.pc = "deduplicate"
  /\ ReturnMessages(deduplicate(this, hybridCall.allMessages))

\* What getStatistics takes from the run r of deduplicate.
ReturnStatistics(r) ==
  /\ hybridCall' = [hybridCall EXCEPT !.pc = "returned",
                                      !.deduplicationStats = r.stats]
  /\ this' = r.this
  /\ UNCHANGED <<macMailDb, imapSource, outsideHybridClient>>

\* getStatistics: this.deduplicator.deduplicate(messages)
DeduplicateReturned ==
  /\ hybridCall.pc = "statistics"
  /\ ReturnStatistics(deduplicate(this, hybridCall.messages))

NextHybridClient ==
  \/ HybridCall("getMessages")
  \/ HybridCall("getStatistics")
  \/ QueryMacMail
  \/ QueryImap
  \/ DeduplicateFetched
  \/ DeduplicateReturned

SpecHybridClient == InitHybridClient /\ [][NextHybridClient]_vars

\* The last call has returned.
Returned(name) == hybridCall.name = name /\ hybridCall.pc = "returned"

\* What deduplicate, on a new instance, returns as unique for a batch.
UniqueOf(batch) == deduplicate(NewDeduplicator, batch).uniqueMessages

\* The messages a source contributes: none when it raises or, for IMAP,
\* when no account is configured.
FetchedFrom(source) ==
  IF source = "mac-mail"
    THEN IF macMailDb.raises THEN <<>>
         ELSE [k \in DOMAIN macMailDb.rows |-> fromMacMail(macMailDb.rows[k])]
  ELSE IF ~imapSource.configured \/ imapSource.raises THEN <<>>
  ELSE [k \in DOMAIN imapSource.rows |-> fromIMAP(imapSource.rows[k])]

\* C26: getMessages returns the first `limit` elements of the unique list
\* of the fetched and filtered messages (a raising source contributing
\* none): at most `limit` messages, in date-descending order, no two of
\* which deduplicate treats as duplicates of each other.
C26_GetMessages ==
  Returned("getMessages") =>
    LET result == hybridCall.messages
        limit == hybridCall.options.limit
    IN /\ Elements(hybridCall.allMessages)
            \subseteq {f.unified : f \in Elements(FetchedFrom("mac-mail"))
                                        \cup Elements(FetchedFrom("imap"))}
       /\ result = SubSeq(UniqueOf(hybridCall.allMessages), 1,
                          Min(limit, Len(UniqueOf(hybridCall.allMessages))))
       /\ Len(result) <= limit
       /\ \A i, j \in 1..Len(result) :
            i < j => result[i].date >= result[j].date
       /\ \A i, j \in 1..Len(result) :
            i < j => Len(UniqueOf(<<result[i], result[j]>>)) = 2

\* The part of C26 on the length, the order and the content of the result.
GetMessagesIsPrefixOfUnique ==
  Returned("getMessages") =>
    LET result == hybridCall.messages
        limit == hybridCall.options.limit
    IN /\ result = SubSeq(UniqueOf(hybridCall.allMessages), 1,
                          Min(limit, Len(UniqueOf(hybridCall.allMessages))))
       /\ Len(result) <= limit
       /\ \A i, j \in 1..Len(result) :
            i < j => result[i].date >= result[j].date

\* C29: the deduplicationStats of getStatistics report no duplicate: zero
\* removed, zero under each of the four strategies, and as many unique
\* messages as messages, whatever the sources held.
C29_StatisticsReportNoDuplicate ==
  Returned("getStatistics") =>
    LET s == hybridCall.deduplicationStats
    IN /\ s.duplicatesRemoved = 0
       /\ s.deduplicationMethods.globalMessageId = 0
       /\ s.deduplicationMethods.messageIdHeader = 0
       /\ s.deduplicationMethods.contentHash = 0
       /\ s.deduplicationMethods.fuzzyMatch = 0
       /\ s.totalMessages = s.uniqueMessages

\* getStatistics on sources that held two copies of one mail, one in each
\* source: the run inside getMessages removed one, the reported stats show
\* none.
C29_Witness ==
  /\ Returned("getStatistics")
  /\ hybridCall.firstRun.duplicatesRemoved = 1
  /\ hybridCall.firstRun.deduplicationMethods.messageIdHeader = 1
  /\ hybridCall.firstRun.bySource.imap = 1
  /\ hybridCall.deduplicationStats.duplicatesRemoved = 0
  /\ hybridCall.deduplicationStats.totalMessages = 1


==========================================================================
